---- MODULE Spec2Model ----
(***************************************************************************)
(* Trigger-response orchestrator of the Halloween scare controller         *)
(* (motion_sensor_project/code/main.py) together with the actuator         *)
(* (combined_output_control.py, usb_relay_control.py, output_control.py)   *)
(* and the audio device (audio_output.py) it drives.                       *)
(*                                                                         *)
(* Every trigger source runs button_pressed() on a thread of its own.  A   *)
(* thread's position in the code is pc[t]; one action is one stretch of    *)
(* code between two points where another thread can run.  Sleeps are       *)
(* points where the thread yields; their length is not modelled.           *)
(***************************************************************************)
EXTENDS Integers, Sequences, FiniteSets, TLC

\* ------------------------------------------------------------------------
\* Bounds of the model
\* ------------------------------------------------------------------------
\* largest value of the wall clock time.time() (in ticks)
MaxTime == 1
\* largest toggle count handed to the toggle functions when they are
\* exercised on their own (ToggleSpec)
MaxCount == 10
\* largest clip size, in steps of a fifth of a second of audio, for which the
\* toggle schedule is computed on its own (ScheduleSpec)
MaxSizeSteps == 44
\* number of steps of half a standby timeout the clock makes while the idle
\* monitor runs (IdleSpec, QuietSpec)
MaxIdleSteps == 5

\* ------------------------------------------------------------------------
\* Program constants
\* ------------------------------------------------------------------------
\* bytes per second of 44.1kHz stereo WAV, main.py:122
BytesPerSecond == 176400
\* WAV files smaller than this are played before the toggling, main.py:139
ShortWavBytes == 100000
\* default toggle count, main.py:113
DefaultToggleCount == 10
\* default duration of a toggle phase in milliseconds (0.2s), main.py:114
DefaultToggleDuration == 200
\* toggle count of a WAV estimated shorter than one second, main.py:126
ShortToggleCount == 5
\* duration of a toggle phase for such a WAV in milliseconds (0.3s), main.py:127
ShortToggleDuration == 300
\* clamp of the toggle count of longer WAV files, main.py:131
MinToggleCount == 5
MaxToggleCount == 20
\* toggle count of MP3 files, main.py:135
Mp3ToggleCount == 15
\* STANDBY_TIMEOUT and IDLE_REPEAT_INTERVAL, in seconds
STANDBY_TIMEOUT == 120
IDLE_REPEAT_INTERVAL == 120

\* The trigger sources that call button_pressed(), each on its own thread:
\* the GPIO interrupt callback and the keyboard monitor thread.
Threads == {"button", "keyboard"}

\* The clips the audio directory may hold: name, extension, size in bytes.
Scream == [name |-> "scream.wav", ext |-> "wav", size |-> 88200]
Howl   == [name |-> "howl.wav",   ext |-> "wav", size |-> 529200]
Growl  == [name |-> "growl.mp3",  ext |-> "mp3", size |-> 60000]
Notes  == [name |-> "notes.txt",  ext |-> "txt", size |-> 120]
\* "no clip selected": audio_path = None
None == [name |-> "", ext |-> "", size |-> 0]

\* The contents of the audio directory the model starts from.
AudioDirs == { {}, {Scream}, {Howl}, {Growl, Notes} }

\* Clips of IDLE_SOUNDS_DIR and the default idle sound of AUDIO_DIR
Moan == [name |-> "moan.wav", ext |-> "wav", size |-> 705600]
Wail == [name |-> "wail.mp3", ext |-> "mp3", size |-> 90000]
Snarl == [name |-> "Snarl new.wav", ext |-> "wav", size |-> 352800]
IdleDirs == { {}, {Moan, Wail} }
\* a third idle clip, and the idle directories the choice of a clip is
\* examined on: empty, one clip, two, three and a file that is not audio
Hiss == [name |-> "hiss.ogg", ext |-> "ogg", size |-> 40000]
ChoiceDirs == { {}, {Moan}, {Moan, Wail}, {Moan, Wail, Hiss, Notes} }

VARIABLES
    pc,                  \* position of each trigger thread in the code
    SCARE_IN_PROGRESS,   \* main.py:46
    LAST_ACTIVITY_TIME,  \* main.py:53
    IDLE_SOUND_PLAYED,   \* main.py:55
    now,                 \* the wall clock read by time.time()
    audio_files,         \* the clips in audio.audio_dir
    PYGAME_AVAILABLE,    \* audio_output.py:18
    music_busy,          \* pygame.mixer.music.get_busy()
    tone_playing,        \* the thread whose tone sequence is sounding, or "none"
    output_type,         \* CombinedOutputControl.output_type
    is_on,               \* CombinedOutputControl.is_on
    audio_path,          \* local of button_pressed / do_simple_scare_with_audio
    toggle_count,        \* local of do_simple_scare_with_audio
    toggle_duration,     \* local of do_simple_scare_with_audio
    audio_done_queue,    \* the session's queue.Queue: number of items in it
    audio_done,          \* local of _toggle_output_with_audio_sync
    is_mp3,              \* parameter of _toggle_output_with_audio_sync
    i,                   \* loop index of the toggle functions
    audio_thread,        \* the session's audio thread: none, started, finished, raised
    exc,                 \* the exception propagating in the thread, or "none"
    result,              \* how the call ended: dropped, returned, or the exception
    ran,                 \* the current call set SCARE_IN_PROGRESS
    last_cmd,            \* last command the thread gave the actuator
    n_on,                \* turn_on commands given by the current toggle function
    n_off,               \* turn_off commands given by the current toggle function
    n_put,               \* items the session's audio thread has put in the queue
    touched,             \* the call, not yet accepted, has changed the activity clock
    sig_after_off,       \* k if the signal was put between the k-th turn_off and its poll
    mpc,                 \* position of the main thread in its loop, main.py:724-729
    inactive_time,       \* local of check_inactivity
    idle_sound_path,     \* local of play_idle_sound: the clip being played
    LAST_IDLE_SOUND_TIME,  \* main.py:54
    LAST_IDLE_SOUND,     \* main.py:56
    idle_files,          \* the clips in IDLE_SOUNDS_DIR
    default_sound,       \* "Snarl new.wav" exists in AUDIO_DIR
    blink_left,          \* blinks output.blink() has still to make, main.py:721
    original_state,      \* local of OutputDevice.blink()
    main_cmds,           \* commands the main thread has given the actuator
    cleanup_ran,         \* the steps of the cleanup pass that were called
    gpio_ok,             \* OutputDevice(pin) can be created: the GPIO works
    gpio_controller,     \* CombinedOutputControl.gpio_controller is not None
    usb_controller,      \* CombinedOutputControl.usb_controller is not None
    connected,           \* usb_controller.is_connected()
    gpio_tried,          \* the constructor has called OutputDevice(pin)
    last_press_time,     \* of each trigger source, motion_sensor.py:28
    accepted_at,         \* when each source last called its callback
    press_log,           \* what each source did with its last press
    button_callback,     \* HalloweenScareGUI.button_callback is set
    button_active,       \* HalloweenScareGUI.button_active
    gpc,                 \* position of each thread the GUI button starts
    wake_at,             \* when the time.sleep(cooldown_time) of each ends
    tkpc,                \* position of the Tk thread: in its loop or asleep
    tk_wake,             \* when the Tk thread's own sleep ends
    reset_pending,       \* _reset_button calls root.after() has scheduled
    clicks,              \* clicks on the button handled so far
    returned_at,         \* when the last callback returned, or -1
    last_outcome,        \* how the last accepted click went on
    late_thread,         \* the audio thread of a session that has ended
    late_queue,          \* items in the queue that thread refers to
    last_success,        \* the last actuator command that succeeded
    current_process,     \* AudioOutput.current_process: 0 is None
    running,             \* the player processes that have not exited
    spawned,             \* player processes started so far
    apc,                 \* position of each caller inside AudioOutput
    process              \* the local `process` of each play_audio_file()

vars == << pc, SCARE_IN_PROGRESS, LAST_ACTIVITY_TIME, IDLE_SOUND_PLAYED, now,
           audio_files, PYGAME_AVAILABLE, music_busy, tone_playing,
           output_type, is_on,
           audio_path, toggle_count, toggle_duration, audio_done_queue,
           audio_done, is_mp3, i, audio_thread, exc, result, ran,
           last_cmd, n_on, n_off, n_put, touched, sig_after_off,
           mpc, inactive_time, idle_sound_path, LAST_IDLE_SOUND_TIME,
           LAST_IDLE_SOUND, idle_files, default_sound,
           blink_left, original_state, main_cmds, cleanup_ran,
           gpio_ok, gpio_controller, usb_controller, connected, gpio_tried,
           last_press_time, accepted_at, press_log,
           button_callback, button_active, gpc, wake_at, tkpc, tk_wake,
           reset_pending, clicks, returned_at, last_outcome,
           late_thread, late_queue, last_success,
           current_process, running, spawned, apc, process >>

\* variables of the process and its devices
globals == << SCARE_IN_PROGRESS, LAST_ACTIVITY_TIME, IDLE_SOUND_PLAYED >>
\* the files and devices the program finds
hardware == << audio_files, PYGAME_AVAILABLE, output_type >>
\* the main thread outside its loop: the ready blink and the cleanup pass
main_thread == << blink_left, original_state, main_cmds, cleanup_ran >>
\* what button_pressed() and the idle monitor never write
\* the controllers inside CombinedOutputControl
device == << gpio_ok, gpio_controller, usb_controller, connected, gpio_tried >>
\* the debounce state of the trigger sources
sources == << last_press_time, accepted_at, press_log >>
\* the GUI button
gui == << button_callback, button_active, gpc, wake_at, tkpc, tk_wake,
          reset_pending, clicks, returned_at, last_outcome >>
\* an audio thread that outlives its session, with the queue it holds
late == << late_thread, late_queue >>
\* the player processes of AudioOutput
player == << current_process, running, spawned, apc, process >>
env == << hardware, main_thread, device, sources, gui, late, last_success, player >>
audio_state == << music_busy, tone_playing >>
\* locals of the scare sequence
locals == << audio_path, toggle_count, toggle_duration, audio_done, is_mp3, i >>
\* history of the toggle function
history == << last_cmd, n_on, n_off, touched >>
signal == << audio_done_queue, audio_thread, n_put, sig_after_off >>
\* the main thread's idle monitor and the idle clips
idle == << mpc, inactive_time, idle_sound_path, LAST_IDLE_SOUND_TIME,
           LAST_IDLE_SOUND, idle_files, default_sound >>

\* ------------------------------------------------------------------------
\* Pure helpers
\* ------------------------------------------------------------------------
Max(a, b) == IF a >= b THEN a ELSE b
Min(a, b) == IF a <= b THEN a ELSE b

\* The history counters of actuator commands stop counting at CounterCap,
\* which no toggle count reaches
CounterCap == Max(MaxToggleCount, MaxCount) + 2
Count(c) == Min(c + 1, CounterCap)

\* f.lower().endswith(('.wav', '.mp3', '.ogg'))
ValidAudio(f) == f.ext \in {"wav", "mp3", "ogg"}

\* The clips button_pressed() may select: random.choice(valid_audio_files),
\* or audio_path = None when there is none.
SelectableClips(files) ==
    LET valid_audio_files == {f \in files : ValidAudio(f)}
    IN  IF valid_audio_files = {} THEN {None} ELSE valid_audio_files

\* ToggleSchedule with a slip: the count of a long WAV is not capped at 20
ToggleSchedule_NoCap(clip) ==
    IF clip = None THEN << DefaultToggleCount, DefaultToggleDuration >>
    ELSE IF clip.ext = "wav" THEN
        IF clip.size < BytesPerSecond
        THEN << ShortToggleCount, ShortToggleDuration >>
        ELSE << Max(MinToggleCount, (5 * clip.size) \div (2 * BytesPerSecond)),
                DefaultToggleDuration >>
    ELSE IF clip.ext = "mp3" THEN << Mp3ToggleCount, DefaultToggleDuration >>
    ELSE << DefaultToggleCount, DefaultToggleDuration >>

\* toggle_count and toggle_duration of do_simple_scare_with_audio.
\* estimated_duration = file_size / 176400; int(estimated_duration * 2.5) is
\* the floor of 5 * file_size / (2 * 176400).
ToggleSchedule(clip) ==
    IF clip = None THEN << DefaultToggleCount, DefaultToggleDuration >>
    ELSE IF clip.ext = "wav" THEN
        IF clip.size < BytesPerSecond
        THEN << ShortToggleCount, ShortToggleDuration >>
        ELSE << Max(MinToggleCount,
                    Min(MaxToggleCount, (5 * clip.size) \div (2 * BytesPerSecond))),
                DefaultToggleDuration >>
    ELSE IF clip.ext = "mp3" THEN << Mp3ToggleCount, DefaultToggleDuration >>
    ELSE << DefaultToggleCount, DefaultToggleDuration >>

\* What a command to the actuator can do.  GPIO.output() either works or
\* raises; a write to the relay's serial port either works or fails, and
\* USBRelay catches the failure and returns False; a relay that is not
\* connected returns False at once (usb_relay_control.py:122-125, 138-141);
\* with no controller for the output type nothing is done
\* (combined_output_control.py:96-98, 110-112).
Outcomes ==
    IF output_type = "gpio" /\ gpio_controller THEN {"ok", "raise"}
    ELSE IF output_type = "usb_relay" /\ usb_controller
         THEN (IF connected THEN {"ok", "fail"} ELSE {"fail"})
         ELSE {"nothing"}

\* CombinedOutputControl.is_on after turn_on() with outcome o
IsOnAfterTurnOn(o) ==
    IF o = "nothing" THEN is_on
    ELSE IF output_type = "gpio"
         THEN (IF o = "ok" THEN TRUE ELSE is_on)
         ELSE (o = "ok")

\* CombinedOutputControl.is_on after turn_off() with outcome o
IsOnAfterTurnOff(o) ==
    IF o = "nothing" THEN is_on
    ELSE IF output_type = "gpio"
         THEN (IF o = "ok" THEN FALSE ELSE is_on)
         ELSE ~(o = "ok")

\* the thread goes on to position p
Goto(t, p) == pc' = [pc EXCEPT ![t] = p]

\* an exception leaves the try block of button_pressed(): control reaches
\* its finally clause with the exception pending
RaiseInTry(t, e) ==
    /\ pc' = [pc EXCEPT ![t] = "bp_finally"]
    /\ exc' = [exc EXCEPT ![t] = e]

\* the call of thread t ends: its locals go out of scope, and nothing refers
\* to the session's audio thread any more
DropLocals(t) ==
    /\ audio_path' = [audio_path EXCEPT ![t] = None]
    /\ toggle_count' = [toggle_count EXCEPT ![t] = DefaultToggleCount]
    /\ toggle_duration' = [toggle_duration EXCEPT ![t] = DefaultToggleDuration]
    /\ audio_done' = [audio_done EXCEPT ![t] = FALSE]
    /\ is_mp3' = [is_mp3 EXCEPT ![t] = FALSE]
    /\ i' = [i EXCEPT ![t] = 0]
    /\ n_on' = [n_on EXCEPT ![t] = 0]
    /\ n_off' = [n_off EXCEPT ![t] = 0]
    /\ last_cmd' = [last_cmd EXCEPT ![t] = "none"]
    /\ audio_thread' = [audio_thread EXCEPT ![t] = "none"]

\* output.turn_on() by thread t with outcome o, then on to position p
turn_on(t, o, p) ==
    /\ is_on' = IsOnAfterTurnOn(o)
    /\ last_cmd' = [last_cmd EXCEPT ![t] = "on"]
    /\ IF o = "raise" THEN RaiseInTry(t, "RuntimeError") ELSE Goto(t, p) /\ UNCHANGED exc

\* output.turn_off() by thread t with outcome o, then on to position p
turn_off(t, o, p) ==
    /\ is_on' = IsOnAfterTurnOff(o)
    /\ last_cmd' = [last_cmd EXCEPT ![t] = "off"]
    /\ IF o = "raise" THEN RaiseInTry(t, "RuntimeError") ELSE Goto(t, p) /\ UNCHANGED exc

\* ------------------------------------------------------------------------
\* Initial state: after the start-up code of main.py has run
\* ------------------------------------------------------------------------
\* the main thread stands in its loop, no idle sound played yet
MonitorAtStart ==
    /\ mpc = "m_sleep"
    /\ inactive_time = 0
    /\ idle_sound_path = None
    /\ LAST_IDLE_SOUND_TIME = 0
    /\ LAST_IDLE_SOUND = ""

\* the ready blink is over and no cleanup has begun
MainInLoop ==
    /\ blink_left = 0
    /\ original_state = FALSE
    /\ main_cmds = 0
    /\ cleanup_ran = {}

\* CombinedOutputControl was constructed with the controller of its output
\* type working
DeviceReady ==
    /\ gpio_ok = (output_type = "gpio")
    /\ gpio_controller = (output_type = "gpio")
    /\ usb_controller = (output_type = "usb_relay")
    /\ connected = (output_type = "usb_relay")
    /\ gpio_tried = (output_type = "gpio")

\* time.time() when the program starts, in the unit of the clock and counted
\* back from the start, where the model's clock begins at 0
ClockAtStart == 1000

\* no trigger source has seen a press: last_press_time = 0 on the clock of
\* time.time() (motion_sensor.py:28, 220; keyboard_input.py:22;
\* direct_keyboard_input.py:27; pico_keyboard_input.py:28)
SourcesAtStart ==
    /\ last_press_time = [t \in Threads |-> 0 - ClockAtStart]
    /\ accepted_at = [t \in Threads |-> 0 - ClockAtStart]
    /\ press_log = [t \in Threads |-> "none"]

\* gui_interface.py:26-28 with the callback of main.py:610; no click yet
GuiAtStart ==
    /\ button_callback = TRUE
    /\ button_active = TRUE
    /\ gpc = [t \in Threads |-> "none"]
    /\ wake_at = [t \in Threads |-> 0]
    /\ tkpc = "loop"
    /\ tk_wake = 0
    /\ reset_pending = 0
    /\ clicks = 0
    /\ returned_at = -1
    /\ last_outcome = "none"

\* a thread that is in no call of AudioOutput
NoCall == [call |-> "none", at |-> "idle"]

\* no session has ended yet, so no audio thread is left over from one
NoLateThread ==
    /\ late_thread = "none"
    /\ late_queue = 0

\* audio_output.py:87, self.current_process = None, and no command given to
\* the actuator yet
PlayerAtStart ==
    /\ current_process = 0
    /\ running = {}
    /\ spawned = 0
    /\ apc = [t \in Threads |-> NoCall]
    /\ process = [t \in Threads |-> 0]
    /\ last_success = "none"

\* the parts of the program that a specification leaves out stand still in
\* their state after start-up
RestAtStart == MainInLoop /\ DeviceReady /\ SourcesAtStart /\ GuiAtStart

\* no idle clip is installed
NoIdleClips == idle_files = {} /\ default_sound = FALSE

\* the trigger threads wait for a press, nothing is switched on or playing
SessionsAtStart ==
    /\ pc = [t \in Threads |-> "idle"]
    /\ SCARE_IN_PROGRESS = FALSE
    /\ LAST_ACTIVITY_TIME = 0
    /\ IDLE_SOUND_PLAYED = FALSE
    /\ now = 0
    /\ audio_files \in AudioDirs
    /\ PYGAME_AVAILABLE = TRUE
    /\ music_busy = FALSE
    /\ tone_playing = "none"
    /\ is_on = FALSE
    /\ audio_path = [t \in Threads |-> None]
    /\ toggle_count = [t \in Threads |-> DefaultToggleCount]
    /\ toggle_duration = [t \in Threads |-> DefaultToggleDuration]
    /\ audio_done_queue = [t \in Threads |-> 0]
    /\ audio_done = [t \in Threads |-> FALSE]
    /\ is_mp3 = [t \in Threads |-> FALSE]
    /\ i = [t \in Threads |-> 0]
    /\ audio_thread = [t \in Threads |-> "none"]
    /\ exc = [t \in Threads |-> "none"]
    /\ result = [t \in Threads |-> "none"]
    /\ ran = [t \in Threads |-> FALSE]
    /\ last_cmd = [t \in Threads |-> "none"]
    /\ n_on = [t \in Threads |-> 0]
    /\ n_off = [t \in Threads |-> 0]
    /\ n_put = [t \in Threads |-> 0]
    /\ touched = [t \in Threads |-> FALSE]
    /\ sig_after_off = [t \in Threads |-> 0]
    /\ NoLateThread
    /\ PlayerAtStart

\* the same with the actuator on GPIO or on the USB relay
ThreadsAtStart == SessionsAtStart /\ output_type \in {"gpio", "usb_relay"}

Init == ThreadsAtStart /\ MonitorAtStart /\ NoIdleClips /\ RestAtStart

\* ------------------------------------------------------------------------
\* The clock
\* ------------------------------------------------------------------------
Tick ==
    /\ now < MaxTime
    /\ now' = now + 1
    /\ UNCHANGED << pc, globals, env, idle, audio_state, is_on, locals, exc, result,
                    ran, history, signal >>

\* ------------------------------------------------------------------------
\* button_pressed(), main.py:287-362
\* ------------------------------------------------------------------------
\* A trigger source calls its callback.
Trigger(t) ==
    /\ pc[t] = "idle"
    /\ Goto(t, "bp_activity")
    /\ UNCHANGED << globals, now, env, idle, audio_state, is_on, locals, exc, result, ran,
                    history, signal >>

\* The call has ended and control is back in the trigger source, which
\* waits for the next press (motion_sensor.py:92, 296-298).
CallbackDone(t) ==
    /\ pc[t] = "bp_end"
    /\ Goto(t, "idle")
    /\ result' = [result EXCEPT ![t] = "none"]
    /\ ran' = [ran EXCEPT ![t] = FALSE]
    /\ exc' = [exc EXCEPT ![t] = "none"]
    /\ touched' = [touched EXCEPT ![t] = FALSE]
    /\ UNCHANGED << globals, now, env, idle, audio_state, is_on, locals, last_cmd, n_on,
                    n_off, signal >>

\* lines 292-300: the activity clock is touched before the flag is looked at
ButtonActivity(t) ==
    /\ pc[t] = "bp_activity"
    /\ LAST_ACTIVITY_TIME' = now
    /\ IDLE_SOUND_PLAYED' = FALSE
    /\ touched' = [touched EXCEPT ![t] =
                       LAST_ACTIVITY_TIME # now \/ IDLE_SOUND_PLAYED]
    /\ Goto(t, "bp_check")
    /\ UNCHANGED << SCARE_IN_PROGRESS, now, env, idle, audio_state, is_on, locals, exc,
                    result, ran, last_cmd, n_on, n_off, signal >>

\* ButtonCheck with a slip: the ignored trigger also stops the audio
ButtonCheck_StopsAudio(t) ==
    /\ pc[t] = "bp_check"
    /\ IF SCARE_IN_PROGRESS
       THEN /\ Goto(t, "bp_end")
            /\ result' = [result EXCEPT ![t] = "dropped"]
            /\ music_busy' = FALSE
            /\ tone_playing' = "none"
            /\ UNCHANGED touched
       ELSE /\ Goto(t, "bp_set")
            /\ touched' = [touched EXCEPT ![t] = FALSE]
            /\ UNCHANGED << result, audio_state >>
    /\ UNCHANGED << globals, now, env, idle, is_on, locals, exc, ran, last_cmd, n_on,
                    n_off, signal >>

\* lines 303-305: if SCARE_IN_PROGRESS: return
ButtonCheck(t) ==
    /\ pc[t] = "bp_check"
    /\ IF SCARE_IN_PROGRESS
       THEN /\ Goto(t, "bp_end")
            /\ result' = [result EXCEPT ![t] = "dropped"]
            /\ UNCHANGED touched
       ELSE /\ Goto(t, "bp_set")
            /\ touched' = [touched EXCEPT ![t] = FALSE]
            /\ UNCHANGED result
    /\ UNCHANGED << globals, now, env, idle, audio_state, is_on, locals, exc, ran,
                    last_cmd, n_on, n_off, signal >>

\* line 308: SCARE_IN_PROGRESS = True
ButtonSet(t) ==
    /\ pc[t] = "bp_set"
    /\ SCARE_IN_PROGRESS' = TRUE
    /\ ran' = [ran EXCEPT ![t] = TRUE]
    /\ Goto(t, "bp_select")
    /\ UNCHANGED << LAST_ACTIVITY_TIME, IDLE_SOUND_PLAYED, now, env, idle, audio_state,
                    is_on, locals, exc, result, history, signal >>

\* lines 314-329: list the directory, stop any audio, pick a clip
ButtonSelect(t) ==
    /\ pc[t] = "bp_select"
    /\ music_busy' = FALSE
    /\ tone_playing' = "none"
    /\ \E clip \in SelectableClips(audio_files) :
           audio_path' = [audio_path EXCEPT ![t] = clip]
    /\ Goto(t, "scare_on")
    /\ UNCHANGED << globals, now, env, idle, is_on, toggle_count, toggle_duration,
                    audio_done, is_mp3, i, exc, result, ran, history, signal >>

\* ------------------------------------------------------------------------
\* do_simple_scare_with_audio(audio_path), main.py:99-185
\* ------------------------------------------------------------------------
\* lines 106-110: output.turn_on(); audio_done_queue = queue.Queue()
ScareOn(t) ==
    /\ pc[t] = "scare_on"
    /\ \E o \in Outcomes : turn_on(t, o, "scare_estimate")
    /\ audio_done_queue' = [audio_done_queue EXCEPT ![t] = 0]
    /\ n_put' = [n_put EXCEPT ![t] = 0]
    /\ UNCHANGED << touched, globals, now, env, idle, audio_state, locals, result,
                    ran, n_on,
                    n_off, audio_thread, sig_after_off >>

\* lines 112-136: the toggle schedule; os.path.getsize() of a WAV file raises
\* OSError when the size of the listed file cannot be read
ScareEstimate(t) ==
    /\ pc[t] = "scare_estimate"
    /\ \E getsize_ok \in BOOLEAN :
           IF audio_path[t].ext = "wav" /\ ~getsize_ok
           THEN /\ RaiseInTry(t, "OSError")
                /\ UNCHANGED << toggle_count, toggle_duration >>
           ELSE /\ toggle_count' =
                       [toggle_count EXCEPT ![t] = ToggleSchedule(audio_path[t])[1]]
                /\ toggle_duration' =
                       [toggle_duration EXCEPT ![t] = ToggleSchedule(audio_path[t])[2]]
                /\ Goto(t, "scare_branch")
                /\ UNCHANGED exc
    /\ UNCHANGED << globals, now, env, idle, audio_state, is_on, audio_path, audio_done,
                    is_mp3, i, result, ran, history, signal >>

\* line 139: a WAV file under 100000 bytes is played first, anything else in parallel
ScareBranch(t) ==
    /\ pc[t] = "scare_branch"
    /\ \E getsize_ok \in BOOLEAN :
           IF audio_path[t].ext = "wav" /\ ~getsize_ok
           THEN RaiseInTry(t, "OSError")
           ELSE /\ IF audio_path[t].ext = "wav" /\ audio_path[t].size < ShortWavBytes
                   THEN Goto(t, "scare_play_first")
                   ELSE Goto(t, "scare_parallel")
                /\ UNCHANGED exc
    /\ UNCHANGED << globals, now, env, idle, audio_state, is_on, locals, result, ran,
                    history, signal >>

\* line 142: audio.play_audio_file(audio_path, blocking=True).
\* AudioOutput.play_audio_file(self, filename, volume=1.0) has no parameter
\* named blocking, so the call raises TypeError before anything is played.
ScarePlayFirst(t) ==
    /\ pc[t] = "scare_play_first"
    /\ RaiseInTry(t, "TypeError")
    /\ UNCHANGED << globals, now, env, idle, audio_state, is_on, locals, result, ran,
                    history, signal >>

\* lines 149-182: start the audio thread when there is a clip, then call
\* _toggle_output_with_audio_sync(toggle_count, toggle_duration, queue, is_mp3)
ScareParallel(t) ==
    /\ pc[t] = "scare_parallel"
    /\ audio_thread' = [audio_thread EXCEPT ![t] =
                            IF audio_path[t] # None THEN "started" ELSE "none"]
    /\ is_mp3' = [is_mp3 EXCEPT ![t] = (audio_path[t].ext = "mp3")]
    /\ Goto(t, "ts_on")
    /\ UNCHANGED << globals, now, env, idle, audio_state, is_on, audio_path, toggle_count,
                    toggle_duration, audio_done, i, exc, result, ran, history,
                    audio_done_queue, n_put, sig_after_off >>

\* the audio thread switching the actuator off when it ends, which
\* play_audio_and_signal() does not do
AudioThreadRun_TurnsOff(t) ==
    /\ audio_thread[t] = "started"
    /\ audio_thread' = [audio_thread EXCEPT ![t] = "raised"]
    /\ is_on' = FALSE
    /\ UNCHANGED << pc, globals, now, env, idle, audio_state, locals, exc, result,
                    ran, history, audio_done_queue, n_put, sig_after_off >>

\* lines 151-169, play_audio_and_signal() on the audio thread: the call of
\* play_audio_file(audio_path, blocking=True) at line 156 raises TypeError, the
\* thread dies there and line 168, audio_done_queue.put(True), is not reached.
AudioThreadRun(t) ==
    /\ audio_thread[t] = "started"
    /\ audio_thread' = [audio_thread EXCEPT ![t] = "raised"]
    /\ UNCHANGED << pc, globals, now, env, idle, audio_state, is_on, locals, exc, result,
                    ran, history, audio_done_queue, n_put, sig_after_off >>

\* line 168 alone: a producer puts True in the queue handed to the toggle
\* function.  sig_after_off records k when this happens between the k-th
\* turn_off of the loop and the poll that follows it.
AudioDoneSignal(t) ==
    /\ audio_thread[t] = "started"
    /\ audio_thread' = [audio_thread EXCEPT ![t] = "finished"]
    /\ audio_done_queue' = [audio_done_queue EXCEPT ![t] = @ + 1]
    /\ n_put' = [n_put EXCEPT ![t] = @ + 1]
    /\ sig_after_off' = [sig_after_off EXCEPT ![t] =
                             IF pc[t] = "ts_check1" THEN n_off[t] ELSE 0]
    /\ UNCHANGED << pc, globals, now, env, idle, audio_state, is_on, locals, exc, result,
                    ran, history >>

\* line 185: output.turn_off() at the end of the sequence
ScareOff(t) ==
    /\ pc[t] = "scare_off"
    /\ \E o \in Outcomes : turn_off(t, o, "bp_default")
    /\ UNCHANGED << touched, globals, now, env, idle, audio_state, locals, result,
                    ran, n_on,
                    n_off, signal >>

\* PollDone with a slip: the mixer is asked for a clip of any type
PollDone_AnyClip(t) ==
    IF audio_done_queue[t] > 0 THEN TRUE
    ELSE IF PYGAME_AVAILABLE /\ ~music_busy THEN TRUE
    ELSE audio_done[t]

\* ------------------------------------------------------------------------
\* _toggle_output_with_audio_sync(count, duration, audio_done_queue, is_mp3),
\* main.py:190-282
\* ------------------------------------------------------------------------
\* The three identical polls (lines 211-220, 235-250, 258-273): take the item
\* from the queue if there is one; otherwise, for an MP3, ask pygame whether
\* music is playing.  get_busy() raises when the mixer was never initialised
\* and the except clause swallows that.
PollDone(t) ==
    IF audio_done_queue[t] > 0 THEN TRUE
    ELSE IF is_mp3[t] /\ PYGAME_AVAILABLE /\ ~music_busy THEN TRUE
    ELSE audio_done[t]

PollQueue(t) ==
    audio_done_queue' = [audio_done_queue EXCEPT ![t] = IF @ > 0 THEN @ - 1 ELSE @]

\* lines 205-207: output.turn_on(); time.sleep(duration)
SyncOn(t) ==
    /\ pc[t] = "ts_on"
    /\ \E o \in Outcomes : turn_on(t, o, "ts_precheck")
    /\ n_on' = [n_on EXCEPT ![t] = 1]
    /\ n_off' = [n_off EXCEPT ![t] = 0]
    /\ i' = [i EXCEPT ![t] = 0]
    /\ audio_done' = [audio_done EXCEPT ![t] = FALSE]
    /\ UNCHANGED << touched, globals, now, env, idle, audio_state, audio_path,
                    toggle_count,
                    toggle_duration, is_mp3, result, ran, signal >>

\* lines 210-220: is the audio done before the loop starts?
SyncPrecheck(t) ==
    /\ pc[t] = "ts_precheck"
    /\ audio_done' = [audio_done EXCEPT ![t] = PollDone(t)]
    /\ PollQueue(t)
    /\ Goto(t, "ts_loop")
    /\ UNCHANGED << globals, now, env, idle, audio_state, is_on, audio_path, toggle_count,
                    toggle_duration, is_mp3, i, exc, result, ran, history,
                    audio_thread, n_put, sig_after_off >>

\* lines 223-227: for i in range(count): if audio_done: break
SyncLoop(t) ==
    /\ pc[t] = "ts_loop"
    /\ IF i[t] < toggle_count[t] /\ ~audio_done[t]
       THEN Goto(t, "ts_off")
       ELSE Goto(t, "ts_final")
    /\ UNCHANGED << globals, now, env, idle, audio_state, is_on, locals, exc, result,
                    ran, history, signal >>

\* lines 230-232: output.turn_off(); time.sleep(duration)
SyncOff(t) ==
    /\ pc[t] = "ts_off"
    /\ \E o \in Outcomes : turn_off(t, o, "ts_check1")
    /\ n_off' = [n_off EXCEPT ![t] = Count(@)]
    /\ UNCHANGED << touched, globals, now, env, idle, audio_state, locals, result,
                    ran, n_on,
                    signal >>

\* SyncCheck1 with a slip: the poll notes that the audio is done but the
\* cycle is completed before the loop looks at it
SyncCheck1_NoBreak(t) ==
    /\ pc[t] = "ts_check1"
    /\ audio_done' = [audio_done EXCEPT ![t] = PollDone(t)]
    /\ PollQueue(t)
    /\ Goto(t, "ts_on2")
    /\ UNCHANGED << globals, now, env, idle, audio_state, is_on, audio_path, toggle_count,
                    toggle_duration, is_mp3, i, exc, result, ran, history,
                    audio_thread, n_put, sig_after_off >>

\* lines 235-250: poll after the off phase; break when the audio is done
SyncCheck1(t) ==
    /\ pc[t] = "ts_check1"
    /\ audio_done' = [audio_done EXCEPT ![t] = PollDone(t)]
    /\ PollQueue(t)
    /\ IF PollDone(t) THEN Goto(t, "ts_final") ELSE Goto(t, "ts_on2")
    /\ UNCHANGED << globals, now, env, idle, audio_state, is_on, audio_path, toggle_count,
                    toggle_duration, is_mp3, i, exc, result, ran, history,
                    audio_thread, n_put, sig_after_off >>

\* lines 253-255: output.turn_on(); time.sleep(duration)
SyncOn2(t) ==
    /\ pc[t] = "ts_on2"
    /\ \E o \in Outcomes : turn_on(t, o, "ts_check2")
    /\ n_on' = [n_on EXCEPT ![t] = Count(@)]
    /\ UNCHANGED << touched, globals, now, env, idle, audio_state, locals, result,
                    ran, n_off,
                    signal >>

\* SyncCheck2 with a slip: the poll is a blocking get() that waits for the
\* audio thread's signal
SyncCheck2_BlockingGet(t) ==
    /\ pc[t] = "ts_check2"
    /\ audio_done[t] \/ audio_done_queue[t] > 0
    /\ audio_done' = [audio_done EXCEPT ![t] = PollDone(t)]
    /\ PollQueue(t)
    /\ IF PollDone(t)
       THEN Goto(t, "ts_final") /\ UNCHANGED i
       ELSE Goto(t, "ts_loop") /\ i' = [i EXCEPT ![t] = @ + 1]
    /\ UNCHANGED << globals, now, env, idle, audio_state, is_on, audio_path, toggle_count,
                    toggle_duration, is_mp3, exc, result, ran, history,
                    audio_thread, n_put, sig_after_off >>

\* lines 258-273: poll after the on phase; break when the audio is done,
\* otherwise the next iteration
SyncCheck2(t) ==
    /\ pc[t] = "ts_check2"
    /\ audio_done' = [audio_done EXCEPT ![t] = PollDone(t)]
    /\ PollQueue(t)
    /\ IF PollDone(t)
       THEN Goto(t, "ts_final") /\ UNCHANGED i
       ELSE Goto(t, "ts_loop") /\ i' = [i EXCEPT ![t] = @ + 1]
    /\ UNCHANGED << globals, now, env, idle, audio_state, is_on, audio_path, toggle_count,
                    toggle_duration, is_mp3, exc, result, ran, history,
                    audio_thread, n_put, sig_after_off >>

\* SyncFinal with a slip: the last turn_off is given only when the loop
\* was not ended by the audio
SyncFinal_SkipWhenDone(t) ==
    /\ pc[t] = "ts_final"
    /\ IF audio_done[t]
       THEN /\ Goto(t, "ts_return")
            /\ UNCHANGED << is_on, last_cmd, exc, n_off >>
       ELSE /\ \E o \in Outcomes : turn_off(t, o, "ts_return")
            /\ n_off' = [n_off EXCEPT ![t] = Count(@)]
    /\ UNCHANGED << touched, globals, now, env, idle, audio_state, locals, result, ran,
                    n_on, signal >>

\* line 276: output.turn_off(), always
SyncFinal(t) ==
    /\ pc[t] = "ts_final"
    /\ \E o \in Outcomes : turn_off(t, o, "ts_return")
    /\ n_off' = [n_off EXCEPT ![t] = Count(@)]
    /\ UNCHANGED << touched, globals, now, env, idle, audio_state, locals, result,
                    ran, n_on,
                    signal >>

\* line 282: the function returns to line 185 of its caller
SyncReturn(t) ==
    /\ pc[t] = "ts_return"
    /\ Goto(t, "scare_off")
    /\ UNCHANGED << globals, now, env, idle, audio_state, is_on, locals, exc, result,
                    ran, history, signal >>

\* ------------------------------------------------------------------------
\* _toggle_output_fixed_count(count, duration), main.py:64-96
\* ------------------------------------------------------------------------
\* lines 76-78: output.turn_on(); time.sleep(duration)
FixedOn(t) ==
    /\ pc[t] = "tf_on"
    /\ \E o \in Outcomes : turn_on(t, o, "tf_loop")
    /\ n_on' = [n_on EXCEPT ![t] = 1]
    /\ n_off' = [n_off EXCEPT ![t] = 0]
    /\ i' = [i EXCEPT ![t] = 0]
    /\ UNCHANGED << touched, globals, now, env, idle, audio_state, audio_path,
                    toggle_count,
                    toggle_duration, audio_done, is_mp3, result, ran, signal >>

\* line 81: for i in range(count)
FixedLoop(t) ==
    /\ pc[t] = "tf_loop"
    /\ IF i[t] < toggle_count[t] THEN Goto(t, "tf_off") ELSE Goto(t, "tf_final")
    /\ UNCHANGED << globals, now, env, idle, audio_state, is_on, locals, exc, result,
                    ran, history, signal >>

\* lines 83-85: output.turn_off(); time.sleep(duration)
FixedOff(t) ==
    /\ pc[t] = "tf_off"
    /\ \E o \in Outcomes : turn_off(t, o, "tf_on2")
    /\ n_off' = [n_off EXCEPT ![t] = Count(@)]
    /\ UNCHANGED << touched, globals, now, env, idle, audio_state, locals, result,
                    ran, n_on,
                    signal >>

\* lines 88-90: output.turn_on(); time.sleep(duration); next iteration
FixedOn2(t) ==
    /\ pc[t] = "tf_on2"
    /\ \E o \in Outcomes : turn_on(t, o, "tf_loop")
    /\ n_on' = [n_on EXCEPT ![t] = Count(@)]
    /\ i' = [i EXCEPT ![t] = @ + 1]
    /\ UNCHANGED << touched, globals, now, env, idle, audio_state, audio_path,
                    toggle_count,
                    toggle_duration, audio_done, is_mp3, result, ran, n_off,
                    signal >>

\* line 93: output.turn_off(), always
FixedFinal(t) ==
    /\ pc[t] = "tf_final"
    /\ \E o \in Outcomes : turn_off(t, o, "tf_return")
    /\ n_off' = [n_off EXCEPT ![t] = Count(@)]
    /\ UNCHANGED << touched, globals, now, env, idle, audio_state, locals, result,
                    ran, n_on,
                    signal >>

\* line 96: the function returns to line 185 of its caller
FixedReturn(t) ==
    /\ pc[t] = "tf_return"
    /\ Goto(t, "scare_off")
    /\ UNCHANGED << globals, now, env, idle, audio_state, is_on, locals, exc, result,
                    ran, history, signal >>

\* ------------------------------------------------------------------------
\* button_pressed(), the rest of the try block and the finally clause
\* ------------------------------------------------------------------------
\* lines 336-344: without a clip, audio.play_alarm(1.0) and the melody start
ButtonDefault(t) ==
    /\ pc[t] = "bp_default"
    /\ IF audio_path[t] = None
       THEN tone_playing' = t /\ Goto(t, "bp_tones")
       ELSE UNCHANGED tone_playing /\ Goto(t, "bp_finally")
    /\ UNCHANGED << globals, now, env, idle, music_busy, is_on, locals, exc, result,
                    ran, history, signal >>

\* lines 338-344: the tone sequence has sounded, play_melody() returns
ButtonTones(t) ==
    /\ pc[t] = "bp_tones"
    /\ tone_playing' = IF tone_playing = t THEN "none" ELSE tone_playing
    /\ Goto(t, "bp_finally")
    /\ UNCHANGED << globals, now, env, idle, music_busy, is_on, locals, exc, result,
                    ran, history, signal >>

\* line 349, first statement of the finally clause: output.turn_off().
\* When it raises, the rest of the clause is skipped and the call ends.
ButtonFinally(t) ==
    /\ pc[t] = "bp_finally"
    /\ \E o \in Outcomes :
           /\ is_on' = IsOnAfterTurnOff(o)
           /\ IF o = "raise"
              THEN /\ Goto(t, "bp_end")
                   /\ result' = [result EXCEPT ![t] = "RuntimeError"]
                   /\ DropLocals(t)
              ELSE /\ Goto(t, "bp_clear")
                   /\ last_cmd' = [last_cmd EXCEPT ![t] = "off"]
                   /\ UNCHANGED << result, locals, n_on, n_off, audio_thread >>
    /\ UNCHANGED << touched, globals, now, env, idle, audio_state, exc, ran,
                    audio_done_queue,
                    n_put, sig_after_off >>

\* line 352: SCARE_IN_PROGRESS = False
ButtonClear(t) ==
    /\ pc[t] = "bp_clear"
    /\ SCARE_IN_PROGRESS' = FALSE
    /\ Goto(t, "bp_reset")
    /\ UNCHANGED << LAST_ACTIVITY_TIME, IDLE_SOUND_PLAYED, now, env, idle, audio_state,
                    is_on, locals, exc, result, ran, history, signal >>

\* lines 353-362: the activity clock again, then the call ends: it returns,
\* or the exception that reached the finally clause goes on to the caller
ButtonReset(t) ==
    /\ pc[t] = "bp_reset"
    /\ LAST_ACTIVITY_TIME' = now
    /\ IDLE_SOUND_PLAYED' = FALSE
    /\ result' = [result EXCEPT ![t] = IF exc[t] # "none" THEN exc[t] ELSE "returned"]
    /\ Goto(t, "bp_end")
    /\ DropLocals(t)
    /\ UNCHANGED << touched, SCARE_IN_PROGRESS, now, env, idle, audio_state, is_on,
                    exc, ran,
                    audio_done_queue, n_put, sig_after_off >>

\* ------------------------------------------------------------------------
\* The running program
\* ------------------------------------------------------------------------
\* the steps of one button_pressed() call after it was invoked
Session(t) ==
    \/ ButtonActivity(t) \/ ButtonCheck(t) \/ ButtonSet(t) \/ ButtonSelect(t)
    \/ ScareOn(t) \/ ScareEstimate(t) \/ ScareBranch(t) \/ ScarePlayFirst(t)
    \/ ScareParallel(t)
    \/ SyncOn(t) \/ SyncPrecheck(t) \/ SyncLoop(t) \/ SyncOff(t) \/ SyncCheck1(t)
    \/ SyncOn2(t) \/ SyncCheck2(t) \/ SyncFinal(t) \/ SyncReturn(t)
    \/ ScareOff(t) \/ ButtonDefault(t) \/ ButtonTones(t)
    \/ ButtonFinally(t) \/ ButtonClear(t) \/ ButtonReset(t)

Next ==
    \/ Tick
    \/ \E t \in Threads : Trigger(t) \/ Session(t) \/ CallbackDone(t)
                          \/ AudioThreadRun(t)

Spec == Init /\ [][Next]_vars

\* The program with the clock left out and every thread that is inside
\* button_pressed() scheduled again and again.
LiveNext ==
    \E t \in Threads : Trigger(t) \/ Session(t) \/ CallbackDone(t)
                       \/ AudioThreadRun(t)

LiveSpec == Init /\ [][LiveNext]_vars /\ \A t \in Threads : WF_vars(Session(t))

\* ------------------------------------------------------------------------
\* The idle monitor: the main loop of main.py:724-729 with
\* check_inactivity() (685-707) and play_idle_sound() (628-682)
\* ------------------------------------------------------------------------
\* the clock while the monitor runs: it moves by half a standby timeout
ClockStep == STANDBY_TIMEOUT \div 2

IdleTick ==
    /\ now + ClockStep <= MaxIdleSteps * ClockStep
    /\ now' = now + ClockStep
    /\ UNCHANGED << pc, globals, env, idle, audio_state, is_on, locals, exc,
                    result, ran, history, signal >>

\* an idle WAV is sounding: the main thread waits in subprocess.run(aplay)
IdlePlaying == mpc = "i_playing" /\ idle_sound_path.ext = "wav"

\* lines 726 and 689-703: time.sleep(1) has returned; read the clock, work
\* out the inactive time and reset the played flag once the repeat
\* interval has passed since the last idle sound
MonitorRead ==
    /\ mpc = "m_sleep"
    /\ inactive_time' = now - LAST_ACTIVITY_TIME
    /\ IDLE_SOUND_PLAYED' =
           IF IDLE_SOUND_PLAYED /\ now - LAST_IDLE_SOUND_TIME >= IDLE_REPEAT_INTERVAL
           THEN FALSE ELSE IDLE_SOUND_PLAYED
    /\ mpc' = "m_check"
    /\ UNCHANGED << pc, SCARE_IN_PROGRESS, LAST_ACTIVITY_TIME, now, env,
                    idle_sound_path, LAST_IDLE_SOUND_TIME, LAST_IDLE_SOUND,
                    idle_files, default_sound,
                    audio_state, is_on, locals, exc, result, ran, history, signal >>

\* MonitorCheck with a slip: the played flag is not looked at
MonitorCheck_IgnoresFlag ==
    /\ mpc = "m_check"
    /\ IF inactive_time >= STANDBY_TIMEOUT /\ ~SCARE_IN_PROGRESS
       THEN mpc' = "i_list"
       ELSE mpc' = "m_sleep"
    /\ inactive_time' = 0
    /\ UNCHANGED << pc, globals, now, env, idle_sound_path,
                    LAST_IDLE_SOUND_TIME, LAST_IDLE_SOUND, idle_files, default_sound,
                    audio_state, is_on, locals, exc, result, ran, history, signal >>

\* lines 706-707 and 729: play an idle sound, or sleep until the next tick
MonitorCheck ==
    /\ mpc = "m_check"
    /\ IF inactive_time >= STANDBY_TIMEOUT /\ ~SCARE_IN_PROGRESS
          /\ ~IDLE_SOUND_PLAYED
       THEN mpc' = "i_list"
       ELSE mpc' = "m_sleep"
    /\ inactive_time' = 0
    /\ UNCHANGED << pc, globals, now, env, idle_sound_path,
                    LAST_IDLE_SOUND_TIME, LAST_IDLE_SOUND, idle_files, default_sound,
                    audio_state, is_on, locals, exc, result, ran, history, signal >>

\* a choice that does not avoid the clip played last
IdleChoices_AnyClip ==
    LET valid == {f \in idle_files : ValidAudio(f)}
    IN  IF valid = {}
        THEN IF default_sound THEN {Snarl} ELSE {}
        ELSE valid

\* The clips play_idle_sound() may pick (lines 636-670): a clip of the idle
\* directory other than the last one played, any of them when there is no
\* other, the default sound when the directory has none.
IdleChoices ==
    LET valid == {f \in idle_files : ValidAudio(f)}
        available == {f \in valid : f.name # LAST_IDLE_SOUND}
    IN  IF valid = {}
        THEN IF default_sound THEN {Snarl} ELSE {}
        ELSE IF available = {} THEN valid ELSE available

\* lines 633-670: os.makedirs() and os.listdir() of the idle directory, then
\* the choice of a clip.  Neither call is inside a try: when one raises, the
\* exception leaves play_idle_sound(), check_inactivity() and the while loop
\* of line 724, whose try catches KeyboardInterrupt only.
IdleList ==
    /\ mpc = "i_list"
    /\ \E listed \in BOOLEAN :
           IF ~listed
           THEN mpc' = "m_dead" /\ UNCHANGED idle_sound_path
           ELSE IF IdleChoices = {} \/ IDLE_SOUND_PLAYED
                THEN mpc' = "m_sleep" /\ UNCHANGED idle_sound_path
                ELSE /\ idle_sound_path' \in IdleChoices
                     /\ mpc' = "i_play"
    /\ UNCHANGED << pc, globals, now, env, inactive_time,
                    LAST_IDLE_SOUND_TIME, LAST_IDLE_SOUND, idle_files, default_sound,
                    audio_state, is_on, locals, exc, result, ran, history, signal >>

\* lines 646, 673 and audio_output.py:219-295: play_audio_file(path,
\* volume=0.7) stops whatever is playing, then runs aplay for a WAV and
\* waits for it, or starts the mixer's music for an MP3 and returns
IdlePlay ==
    /\ mpc = "i_play"
    /\ tone_playing' = "none"
    /\ music_busy' = (idle_sound_path.ext = "mp3" /\ PYGAME_AVAILABLE)
    /\ mpc' = "i_playing"
    /\ UNCHANGED << pc, globals, now, env, inactive_time, idle_sound_path,
                    LAST_IDLE_SOUND_TIME, LAST_IDLE_SOUND, idle_files, default_sound,
                    is_on, locals, exc, result, ran, history, signal >>

\* lines 647-655 and 674-682: play_audio_file() has returned; set the played
\* flag and remember the clip and the time
IdleMark ==
    /\ mpc = "i_playing"
    /\ IDLE_SOUND_PLAYED' = TRUE
    /\ LAST_IDLE_SOUND' = idle_sound_path.name
    /\ LAST_IDLE_SOUND_TIME' = now
    /\ idle_sound_path' = None
    /\ mpc' = "m_sleep"
    /\ UNCHANGED << pc, SCARE_IN_PROGRESS, LAST_ACTIVITY_TIME, now, env,
                    inactive_time, idle_files, default_sound,
                    audio_state, is_on, locals, exc, result, ran, history, signal >>

Monitor == MonitorRead \/ MonitorCheck \/ IdleList \/ IdlePlay \/ IdleMark

\* The monitor together with one trigger source
IdleInit ==
    /\ ThreadsAtStart
    /\ MonitorAtStart
    /\ RestAtStart
    /\ idle_files \in IdleDirs
    /\ default_sound \in (IF idle_files = {} THEN BOOLEAN ELSE {FALSE})

IdleNext ==
    \/ IdleTick
    \/ Monitor
    \/ Trigger("button") \/ Session("button") \/ CallbackDone("button")
    \/ AudioThreadRun("button")

IdleSpec == IdleInit /\ [][IdleNext]_vars

\* The monitor with no trigger at all
QuietNext == IdleTick \/ Monitor

QuietSpec == IdleInit /\ [][QuietNext]_vars

\* The monitor with no trigger and idle directories of every size
ChoiceInit ==
    /\ ThreadsAtStart
    /\ MonitorAtStart
    /\ RestAtStart
    /\ idle_files \in ChoiceDirs
    /\ default_sound \in BOOLEAN

ChoiceSpec == ChoiceInit /\ [][QuietNext]_vars

\* ------------------------------------------------------------------------
\* The trigger sources and their debounce: ButtonTrigger (motion_sensor.py:
\* 86-92), KeyboardTrigger (289-298), SimpleKeyboardInput (keyboard_input.py:
\* 45-54), DirectKeyboardInput (direct_keyboard_input.py:115-124) and
\* PicoKeyboardInput (pico_keyboard_input.py:151-160) share one piece of code.
\* In this part the clock counts milliseconds.
\* ------------------------------------------------------------------------
\* debounce_time = 0.3
debounce_time == 300
\* the clock moves by half a debounce time, at most MaxPressSteps times
PressStep == debounce_time \div 2
MaxPressSteps == 4

PressTick ==
    /\ now + PressStep <= MaxPressSteps * PressStep
    /\ now' = now + PressStep
    /\ UNCHANGED << pc, globals, env, idle, audio_state, is_on, locals, exc, result,
                    ran, history, signal >>

\* what a press handler leaves alone
press_frame == << globals, now, hardware, main_thread, device, gui, idle,
                  late, last_success, player,
                  audio_state, is_on, locals, exc, result, ran, history, signal >>

\* a source that accepts every press, whatever its last_press_time
Press_NoDebounce(t) ==
    /\ pc[t] = "idle"
    /\ last_press_time' = [last_press_time EXCEPT ![t] = now]
    /\ accepted_at' = [accepted_at EXCEPT ![t] = now]
    /\ press_log' = [press_log EXCEPT ![t] = "accepted"]
    /\ Goto(t, "bp_activity")
    /\ UNCHANGED press_frame

\* The source t handles a press: current_time = time.time(); when more than
\* debounce_time has passed since its own last_press_time, that time is set
\* and the callback is called on the source's thread, else nothing happens.
Press(t) ==
    /\ pc[t] = "idle"
    /\ IF now - last_press_time[t] > debounce_time
       THEN /\ last_press_time' = [last_press_time EXCEPT ![t] = now]
            /\ accepted_at' = [accepted_at EXCEPT ![t] = now]
            /\ press_log' = [press_log EXCEPT ![t] = "accepted"]
            /\ Goto(t, "bp_activity")
       ELSE /\ press_log' = [press_log EXCEPT ![t] = "rejected"]
            /\ UNCHANGED << pc, last_press_time, accepted_at >>
    /\ UNCHANGED press_frame

\* The steps of button_pressed() when the audio directory holds one WAV
\* clip under 100000 bytes: the clip is selected and played first
ShortSession(t) ==
    \/ ButtonActivity(t) \/ ButtonCheck(t) \/ ButtonSet(t) \/ ButtonSelect(t)
    \/ ScareOn(t) \/ ScareEstimate(t) \/ ScareBranch(t) \/ ScarePlayFirst(t)
    \/ ButtonFinally(t) \/ ButtonClear(t) \/ ButtonReset(t)

\* Two trigger sources with their debounce, the audio directory holding one
\* short clip
DebounceInit ==
    /\ ThreadsAtStart
    /\ audio_files = {Scream}
    /\ MonitorAtStart
    /\ NoIdleClips
    /\ RestAtStart

DebounceNext ==
    \/ PressTick
    \/ \E t \in Threads : Press(t) \/ ShortSession(t) \/ CallbackDone(t)

DebounceSpec == DebounceInit /\ [][DebounceNext]_vars

\* ------------------------------------------------------------------------
\* The GUI button, gui_interface.py:101-138. The Tk thread runs the handlers
\* of the main loop one at a time; the threads of Threads stand for the
\* threads on_button_press() starts. The clock counts seconds.
\* ------------------------------------------------------------------------
\* self.cooldown_time = 3
cooldown_time == 3
\* clicks the button accepts, and the time up to which clicks are made
MaxClicks == 2
MaxGuiTime == 4

\* where a thread started by the GUI is inside _trigger_callback()
InFlight == {"callback", "except", "finally", "cooldown"}

\* what the GUI's steps leave alone outside the GUI
gui_frame == << globals, now, hardware, main_thread, device, sources, idle,
                    late, last_success, player,
                audio_state, is_on, locals, history, signal >>

\* somebody is inside time.sleep(self.cooldown_time)
Sleeping ==
    \/ tkpc = "sleeping" /\ now < tk_wake
    \/ \E t \in Threads : gpc[t] = "cooldown" /\ now < wake_at[t]

GuiTick ==
    /\ now < MaxGuiTime \/ Sleeping
    /\ now' = now + 1
    /\ UNCHANGED << pc, globals, env, idle, audio_state, is_on, locals, exc, result,
                    ran, history, signal >>

\* line 114 for slot t: a thread is started on _trigger_callback()
StartCallback(t) ==
    /\ pc[t] = "idle"
    /\ gpc[t] = "none"
    /\ Goto(t, "bp_activity")
    /\ gpc' = [gpc EXCEPT ![t] = "callback"]
    /\ returned_at' = -1
    /\ UNCHANGED << tkpc, tk_wake, last_outcome >>

\* lines 116-118: no callback, the Tk thread itself goes to sleep
SleepInHandler ==
    /\ tkpc' = "sleeping"
    /\ tk_wake' = now + cooldown_time
    /\ returned_at' = now
    /\ last_outcome' = "no_callback"
    /\ UNCHANGED << pc, gpc >>

\* an on_button_press() that does not look at button_active
TkPress_IgnoresFlag ==
    /\ tkpc = "loop"
    /\ clicks < MaxClicks
    /\ button_active' = FALSE
    /\ clicks' = clicks + 1
    /\ IF button_callback
       THEN \E t \in Threads : StartCallback(t)
       ELSE SleepInHandler
    /\ UNCHANGED << button_callback, wake_at, reset_pending >>
    /\ UNCHANGED << gui_frame, exc, result, ran >>

\* on_button_press(), lines 101-118, run by the Tk thread for a click
TkPress ==
    /\ tkpc = "loop"
    /\ IF ~button_active
       THEN UNCHANGED << pc, gui >>
       ELSE /\ clicks < MaxClicks
            /\ button_active' = FALSE
            /\ clicks' = clicks + 1
            /\ IF button_callback
               THEN \E t \in Threads : StartCallback(t)
               ELSE SleepInHandler
            /\ UNCHANGED << button_callback, wake_at, reset_pending >>
    /\ UNCHANGED << gui_frame, exc, result, ran >>

\* a _trigger_callback() that has no finally clause: when the callback
\* raises, the thread ends in its except clause
GuiReturn_NoFinally(t) ==
    /\ gpc[t] = "callback"
    /\ pc[t] = "bp_end"
    /\ Goto(t, "idle")
    /\ gpc' = [gpc EXCEPT ![t] = IF exc[t] # "none" THEN "none" ELSE "finally"]
    /\ returned_at' = now
    /\ last_outcome' = IF exc[t] # "none" THEN "raised" ELSE "returned"
    /\ result' = [result EXCEPT ![t] = "none"]
    /\ ran' = [ran EXCEPT ![t] = FALSE]
    /\ exc' = [exc EXCEPT ![t] = "none"]
    /\ touched' = [touched EXCEPT ![t] = FALSE]
    /\ UNCHANGED << button_callback, button_active, wake_at, tkpc, tk_wake,
                    reset_pending, clicks >>
    /\ UNCHANGED << globals, now, hardware, main_thread, device, sources, idle,
                    late, last_success, player,
                    audio_state, is_on, locals, last_cmd, n_on, n_off, signal >>

\* lines 122-125: self.button_callback() has ended, by returning or by
\* raising into the except clause
GuiReturn(t) ==
    /\ gpc[t] = "callback"
    /\ pc[t] = "bp_end"
    /\ Goto(t, "idle")
    /\ gpc' = [gpc EXCEPT ![t] = IF exc[t] # "none" THEN "except" ELSE "finally"]
    /\ returned_at' = now
    /\ last_outcome' = IF exc[t] # "none" THEN "raised" ELSE "returned"
    /\ result' = [result EXCEPT ![t] = "none"]
    /\ ran' = [ran EXCEPT ![t] = FALSE]
    /\ exc' = [exc EXCEPT ![t] = "none"]
    /\ touched' = [touched EXCEPT ![t] = FALSE]
    /\ UNCHANGED << button_callback, button_active, wake_at, tkpc, tk_wake,
                    reset_pending, clicks >>
    /\ UNCHANGED << globals, now, hardware, main_thread, device, sources, idle,
                    late, last_success, player,
                    audio_state, is_on, locals, last_cmd, n_on, n_off, signal >>

\* lines 124-125: the except clause prints the error
GuiExcept(t) ==
    /\ gpc[t] = "except"
    /\ gpc' = [gpc EXCEPT ![t] = "finally"]
    /\ UNCHANGED << button_callback, button_active, wake_at, tkpc, tk_wake,
                    reset_pending, clicks, returned_at, last_outcome >>
    /\ UNCHANGED << pc, gui_frame, exc, result, ran >>

\* lines 126-131: the finally clause calls _reset_button_after_delay(),
\* which goes to sleep
GuiSleep(t) ==
    /\ gpc[t] = "finally"
    /\ gpc' = [gpc EXCEPT ![t] = "cooldown"]
    /\ wake_at' = [wake_at EXCEPT ![t] = now + cooldown_time]
    /\ UNCHANGED << button_callback, button_active, tkpc, tk_wake,
                    reset_pending, clicks, returned_at, last_outcome >>
    /\ UNCHANGED << pc, gui_frame, exc, result, ran >>

\* line 132 on the callback thread: the sleep is over and
\* root.after(0, self._reset_button) queues the reset for the Tk thread
GuiWake(t) ==
    /\ gpc[t] = "cooldown"
    /\ now >= wake_at[t]
    /\ gpc' = [gpc EXCEPT ![t] = "posted"]
    /\ reset_pending' = reset_pending + 1
    /\ UNCHANGED << button_callback, button_active, wake_at, tkpc, tk_wake,
                    clicks, returned_at, last_outcome >>
    /\ UNCHANGED << pc, gui_frame, exc, result, ran >>

\* the callback thread returns from _trigger_callback() and ends
GuiExit(t) ==
    /\ gpc[t] = "posted"
    /\ gpc' = [gpc EXCEPT ![t] = "none"]
    /\ UNCHANGED << button_callback, button_active, wake_at, tkpc, tk_wake,
                    reset_pending, clicks, returned_at, last_outcome >>
    /\ UNCHANGED << pc, gui_frame, exc, result, ran >>

GuiThread(t) ==
    GuiReturn(t) \/ GuiExcept(t) \/ GuiSleep(t) \/ GuiWake(t) \/ GuiExit(t)

\* line 132 on the Tk thread: its sleep is over, the reset is queued and
\* on_button_press() returns to the main loop
TkWake ==
    /\ tkpc = "sleeping"
    /\ now >= tk_wake
    /\ tkpc' = "loop"
    /\ reset_pending' = reset_pending + 1
    /\ UNCHANGED << button_callback, button_active, gpc, wake_at, tk_wake,
                    clicks, returned_at, last_outcome >>
    /\ UNCHANGED << pc, gui_frame, exc, result, ran >>

\* _reset_button(), lines 134-138, run by the main loop
TkReset ==
    /\ tkpc = "loop"
    /\ reset_pending > 0
    /\ reset_pending' = reset_pending - 1
    /\ button_active' = TRUE
    /\ UNCHANGED << button_callback, gpc, wake_at, tkpc, tk_wake,
                    clicks, returned_at, last_outcome >>
    /\ UNCHANGED << pc, gui_frame, exc, result, ran >>

\* The GUI right after its construction, with button_pressed() registered
\* (main.py:604-610) or with no callback (gui_interface.py:17)
GuiInit ==
    /\ ThreadsAtStart
    /\ audio_files \in { {}, {Scream} }
    /\ MonitorAtStart
    /\ NoIdleClips
    /\ MainInLoop
    /\ DeviceReady
    /\ SourcesAtStart
    /\ button_callback \in BOOLEAN
    /\ button_active = TRUE
    /\ gpc = [t \in Threads |-> "none"]
    /\ wake_at = [t \in Threads |-> 0]
    /\ tkpc = "loop"
    /\ tk_wake = 0
    /\ reset_pending = 0
    /\ clicks = 0
    /\ returned_at = -1
    /\ last_outcome = "none"

GuiNext ==
    \/ GuiTick
    \/ TkPress
    \/ TkWake
    \/ TkReset
    \/ \E t \in Threads : Session(t) \/ GuiThread(t)

GuiSpec == GuiInit /\ [][GuiNext]_vars

\* The GUI with the clock running, the Tk main loop handling what is queued
\* and every started thread scheduled again and again
GuiLiveSpec ==
    /\ GuiSpec
    /\ WF_vars(GuiTick)
    /\ WF_vars(TkWake)
    /\ WF_vars(TkReset)
    /\ \A t \in Threads : WF_vars(Session(t)) /\ WF_vars(GuiThread(t))

\* ------------------------------------------------------------------------
\* button_pressed() of main_all_keyboards.py:59-151, which every trigger
\* source of that program calls on its own thread (lines 176-206, 294).  It
\* has no SCARE_IN_PROGRESS flag.
\* ------------------------------------------------------------------------
\* what these steps leave alone
allkeys_frame == << globals, now, env, idle, toggle_count, toggle_duration,
                    audio_done, is_mp3, i, ran, n_on, n_off, touched, signal >>

\* a trigger source calls its callback
AllKeysTrigger(t) ==
    /\ pc[t] = "idle"
    /\ Goto(t, "ak_on")
    /\ UNCHANGED << allkeys_frame, audio_state, is_on, audio_path, exc, result,
                    last_cmd >>

\* line 64, output.turn_on(), before the try block: when it raises the call
\* ends there
AllKeysOn(t) ==
    /\ pc[t] = "ak_on"
    /\ \E o \in Outcomes :
           /\ is_on' = IsOnAfterTurnOn(o)
           /\ IF o = "raise"
              THEN /\ Goto(t, "ak_end")
                   /\ result' = [result EXCEPT ![t] = "RuntimeError"]
              ELSE /\ Goto(t, "ak_play")
                   /\ UNCHANGED result
    /\ last_cmd' = [last_cmd EXCEPT ![t] = "on"]
    /\ UNCHANGED << allkeys_frame, audio_state, audio_path, exc >>

\* lines 67-145: a clip is picked, audio.stop_audio() and
\* audio.play_audio_file(audio_path) are called; the clip plays, or it fails
\* and the alarm is played instead, or there is no clip and the default
\* sounds are played, or one of these steps raises
AllKeysPlay(t) ==
    /\ pc[t] = "ak_play"
    /\ \E clip \in SelectableClips(audio_files), how \in {"played", "failed", "raised"} :
           /\ audio_path' = [audio_path EXCEPT ![t] = clip]
           /\ IF how = "raised"
              THEN /\ Goto(t, "ak_finally")
                   /\ exc' = [exc EXCEPT ![t] = "OSError"]
                   /\ UNCHANGED audio_state
              ELSE /\ Goto(t, "ak_wait")
                   /\ UNCHANGED exc
                   /\ IF clip # None /\ how = "played"
                      THEN /\ music_busy' = (clip.ext = "mp3" /\ PYGAME_AVAILABLE)
                           /\ tone_playing' = "none"
                      ELSE /\ music_busy' = IF clip # None THEN FALSE ELSE music_busy
                           /\ tone_playing' = t
    /\ UNCHANGED << allkeys_frame, is_on, result, last_cmd >>

\* lines 91-145: the time.sleep() after the clip or the tones has returned
AllKeysWait(t) ==
    /\ pc[t] = "ak_wait"
    /\ tone_playing' = IF tone_playing = t THEN "none" ELSE tone_playing
    /\ Goto(t, "ak_finally")
    /\ UNCHANGED << allkeys_frame, music_busy, is_on, audio_path, exc, result,
                    last_cmd >>

\* lines 146-151: the finally clause calls output.turn_off() and the call
\* ends, by returning or with the exception that was pending or that
\* turn_off() raised
AllKeysFinally(t) ==
    /\ pc[t] = "ak_finally"
    /\ \E o \in Outcomes :
           /\ is_on' = IsOnAfterTurnOff(o)
           /\ result' = [result EXCEPT ![t] =
                             IF o = "raise" THEN "RuntimeError"
                             ELSE IF exc[t] # "none" THEN exc[t] ELSE "returned"]
    /\ last_cmd' = [last_cmd EXCEPT ![t] = "off"]
    /\ Goto(t, "ak_end")
    /\ UNCHANGED << allkeys_frame, audio_state, audio_path, exc >>

\* control is back in the trigger source
AllKeysDone(t) ==
    /\ pc[t] = "ak_end"
    /\ Goto(t, "idle")
    /\ audio_path' = [audio_path EXCEPT ![t] = None]
    /\ exc' = [exc EXCEPT ![t] = "none"]
    /\ result' = [result EXCEPT ![t] = "none"]
    /\ last_cmd' = [last_cmd EXCEPT ![t] = "none"]
    /\ UNCHANGED << allkeys_frame, audio_state, is_on >>

AllKeysNext ==
    \E t \in Threads :
        \/ AllKeysTrigger(t) \/ AllKeysOn(t) \/ AllKeysPlay(t) \/ AllKeysWait(t)
        \/ AllKeysFinally(t) \/ AllKeysDone(t)

AllKeysSpec == Init /\ [][AllKeysNext]_vars

\* ------------------------------------------------------------------------
\* AudioOutput.play_audio_file() and stop_audio(), audio_output.py:211-424,
\* for a clip that is played by a player process (subprocess.Popen, lines
\* 300-377).  The callers are threads: play_audio_async() starts one per call
\* (lines 429-440), the trigger sources of main_all_keyboards.py call
\* button_pressed() each on its own, and main.py calls from the main thread
\* and from the trigger threads.  Processes are numbered from 1; 0 is None.
\* ------------------------------------------------------------------------
\* player processes started in one run
MaxProcs == 3

player_frame == << pc, globals, now, hardware, main_thread, device, sources, gui,
                   late, last_success, idle, is_on, locals, exc, result, ran,
                   history, signal >>

\* thread t goes on inside its call
At(t, where) == apc' = [apc EXCEPT ![t].at = where]

\* stop_audio() returns: play_audio_file() goes on to start its player, a
\* caller of stop_audio() alone is done
StopReturns(t) ==
    apc' = [apc EXCEPT ![t] = IF apc[t].call = "play"
                              THEN [call |-> "play", at |-> "popen"]
                              ELSE NoCall]

\* a caller enters play_audio_file(); line 226 calls self.stop_audio()
PlayCall(t) ==
    /\ apc[t] = NoCall
    /\ spawned < MaxProcs
    /\ apc' = [apc EXCEPT ![t] = [call |-> "play", at |-> "check"]]
    /\ UNCHANGED << player_frame, audio_state, current_process, running, spawned,
                    process >>

\* a caller enters stop_audio() (main.py:318, 740)
StopCall(t) ==
    /\ apc[t] = NoCall
    /\ apc' = [apc EXCEPT ![t] = [call |-> "stop", at |-> "check"]]
    /\ UNCHANGED << player_frame, audio_state, current_process, running, spawned,
                    process >>

\* lines 400-409: the mixer is stopped; then
\* `if self.current_process and self.current_process.poll() is None`
StopCheck(t) ==
    /\ apc[t].at = "check"
    /\ music_busy' = FALSE
    /\ tone_playing' = "none"
    /\ IF current_process # 0 /\ current_process \in running
       THEN At(t, "term")
       ELSE StopReturns(t)
    /\ UNCHANGED << player_frame, current_process, running, spawned, process >>

\* lines 410-414: self.current_process.terminate() and a sleep of 0.1 s.  The
\* process ends on SIGTERM or is still there after the sleep; when another
\* thread has set current_process to None meanwhile, the call raises
\* AttributeError and control goes to the except and finally clauses.
StopTerminate(t) ==
    /\ apc[t].at = "term"
    /\ IF current_process = 0
       THEN At(t, "clear") /\ UNCHANGED running
       ELSE /\ At(t, "kill")
            /\ \E ends \in BOOLEAN :
                   running' = IF ends THEN running \ {current_process} ELSE running
    /\ UNCHANGED << player_frame, audio_state, current_process, spawned, process >>

\* lines 415-419: when the process is still running it is killed
StopKill(t) ==
    /\ apc[t].at = "kill"
    /\ running' = running \ {current_process}
    /\ At(t, "clear")
    /\ UNCHANGED << player_frame, audio_state, current_process, spawned, process >>

\* lines 422-424, the finally clause: self.current_process = None
StopClear(t) ==
    /\ apc[t].at = "clear"
    /\ current_process' = 0
    /\ StopReturns(t)
    /\ UNCHANGED << player_frame, audio_state, running, spawned, process >>

\* lines 306, 321, 365: process = subprocess.Popen(cmd), which starts a
\* player or raises; when it raises the call returns False
PlayPopen(t) ==
    /\ apc[t].at = "popen"
    /\ \E started \in BOOLEAN :
           IF started
           THEN /\ spawned' = spawned + 1
                /\ running' = running \cup {spawned + 1}
                /\ process' = [process EXCEPT ![t] = spawned + 1]
                /\ At(t, "store")
           ELSE /\ apc' = [apc EXCEPT ![t] = NoCall]
                /\ UNCHANGED << spawned, running, process >>
    /\ UNCHANGED << player_frame, audio_state, current_process >>

\* lines 309-312, 324-327, 368-374: `if process.poll() is None:
\* self.current_process = process`, and the call returns
PlayStore(t) ==
    /\ apc[t].at = "store"
    /\ current_process' = IF process[t] \in running THEN process[t]
                          ELSE current_process
    /\ process' = [process EXCEPT ![t] = 0]
    /\ apc' = [apc EXCEPT ![t] = NoCall]
    /\ UNCHANGED << player_frame, audio_state, running, spawned >>

\* a player has played its clip to the end and exits
ProcessExit ==
    /\ \E p \in running : running' = running \ {p}
    /\ UNCHANGED << player_frame, audio_state, current_process, spawned, apc,
                    process >>

PlayerNext ==
    \/ ProcessExit
    \/ \E t \in Threads :
           \/ PlayCall(t) \/ StopCall(t) \/ StopCheck(t) \/ StopTerminate(t)
           \/ StopKill(t) \/ StopClear(t) \/ PlayPopen(t) \/ PlayStore(t)

PlayerSpec == Init /\ [][PlayerNext]_vars

\* ------------------------------------------------------------------------
\* CombinedOutputControl.__init__, combined_output_control.py:27-70, called
\* by the main thread at main.py:377 before any trigger source exists
\* ------------------------------------------------------------------------
\* lines 44-45 and 72-84: without an output type, the USB relay when one is
\* detected, else GPIO
AutoDetect(requested, usb_detected) ==
    IF requested = "none"
    THEN (IF usb_detected THEN "usb_relay" ELSE "gpio")
    ELSE requested

\* lines 48-55: on the GPIO path OutputDevice(pin) is created; when that
\* fails the type becomes the USB relay
TypeAfterGpio(type) == IF type = "gpio" /\ ~gpio_ok THEN "usb_relay" ELSE type

\* lines 63-70: the relay is not connected and there is no GPIO controller.
\* Line 66 calls OutputControl(pin_number, active_high); the module imports
\* OutputDevice (line 10) and knows no OutputControl, so the call raises
\* NameError, which line 69 catches: the controller and the type stay.
GpioFallback(controller) == controller

Construct ==
    /\ mpc = "m_init"
    /\ \E usb_detected, usb_opens \in BOOLEAN :
           LET detected == AutoDetect(output_type, usb_detected)
               type == TypeAfterGpio(detected)
               gpio == detected = "gpio" /\ gpio_ok
               usb == type = "usb_relay"
           IN  /\ gpio_tried' = (detected = "gpio")
               /\ usb_controller' = usb
               /\ connected' = (usb /\ usb_opens)
               /\ gpio_controller' =
                      IF usb /\ ~usb_opens /\ ~gpio THEN GpioFallback(gpio) ELSE gpio
               /\ output_type' = type
    /\ is_on' = FALSE
    /\ mpc' = "m_sleep"
    /\ UNCHANGED << pc, globals, now, audio_files, PYGAME_AVAILABLE, main_thread,
                    sources, gui, late, last_success, player, gpio_ok,
                    inactive_time, idle_sound_path, LAST_IDLE_SOUND_TIME,
                    LAST_IDLE_SOUND, idle_files, default_sound, audio_state,
                    locals, exc, result, ran, history, signal >>

\* The construction of the actuator with every output type asked for and
\* every state of the hardware, followed by the calls of one trigger source
DeviceInit ==
    /\ SessionsAtStart
    /\ audio_files \in { {}, {Scream} }
    /\ output_type \in {"none", "gpio", "usb_relay"}
    /\ mpc = "m_init"
    /\ inactive_time = 0
    /\ idle_sound_path = None
    /\ LAST_IDLE_SOUND_TIME = 0
    /\ LAST_IDLE_SOUND = ""
    /\ NoIdleClips
    /\ MainInLoop
    /\ gpio_ok \in BOOLEAN
    /\ gpio_controller = FALSE
    /\ usb_controller = FALSE
    /\ connected = FALSE
    /\ gpio_tried = FALSE
    /\ SourcesAtStart
    /\ GuiAtStart

DeviceNext ==
    \/ Construct
    \/ (mpc # "m_init" /\ Trigger("button"))
    \/ Session("button")
    \/ CallbackDone("button")

DeviceSpec == DeviceInit /\ [][DeviceNext]_vars

\* ------------------------------------------------------------------------
\* CombinedOutputControl.turn_on() and turn_off() on their own
\* (combined_output_control.py:86-112): after the construction a caller
\* gives up to MaxCommands commands, each with every outcome its controller
\* allows.  last_success records the last command that took effect.
\* ------------------------------------------------------------------------
MaxCommands == 4

command_frame == << pc, globals, now, hardware, device, sources, gui, late, player,
                    idle, audio_state, locals, exc, result, ran, history, signal,
                    blink_left, original_state, cleanup_ran >>

CommandOn ==
    /\ mpc # "m_init"
    /\ main_cmds < MaxCommands
    /\ main_cmds' = main_cmds + 1
    /\ \E o \in Outcomes :
           /\ is_on' = IsOnAfterTurnOn(o)
           /\ last_success' = IF o = "ok" THEN "on" ELSE last_success
    /\ UNCHANGED command_frame

CommandOff ==
    /\ mpc # "m_init"
    /\ main_cmds < MaxCommands
    /\ main_cmds' = main_cmds + 1
    /\ \E o \in Outcomes :
           /\ is_on' = IsOnAfterTurnOff(o)
           /\ last_success' = IF o = "ok" THEN "off" ELSE last_success
    /\ UNCHANGED command_frame

CommandNext == Construct \/ CommandOn \/ CommandOff

CommandSpec == DeviceInit /\ [][CommandNext]_vars

\* ------------------------------------------------------------------------
\* The main thread around its loop: the ready blink (main.py:721), the way
\* out of the loop (731) and the cleanup pass (734-765)
\* ------------------------------------------------------------------------
\* output.blink(3, 0.1, 0.1): the number of blinks
BlinkCount == 3

\* the steps of the cleanup pass that stand before the keyboard handlers
CleanupSteps == {"turn_off", "cleanup", "stop_audio"}

\* the positions of the main thread inside the try block of main.py:719-729
BlinkPcs == {"m_start", "blink_on", "blink_off", "blink_restore"}
LoopPcs == {"m_sleep", "m_check", "i_list", "i_play", "i_playing"}

\* what the main thread's steps outside the monitor leave alone
main_frame == << pc, globals, now, hardware, device, sources, gui,
                 late, last_success, player,
                 inactive_time, idle_sound_path,
                 LAST_IDLE_SOUND_TIME, LAST_IDLE_SOUND, idle_files, default_sound,
                 locals, exc, result, ran, history, signal >>

\* CombinedOutputControl.blink() hands over to the controller in use, whose
\* blink() remembers whether the output was on (output_control.py:58; the USB
\* relay restores nothing, usb_relay_control.py:165-180)
BlinkStart ==
    /\ mpc = "m_start"
    /\ original_state' = (output_type = "gpio" /\ is_on)
    /\ blink_left' = BlinkCount
    /\ mpc' = "blink_on"
    /\ UNCHANGED << main_frame, audio_state, is_on, main_cmds, cleanup_ran >>

\* a command of blink(), given to the controller below CombinedOutputControl,
\* whose is_on it does not touch.  A command that raises leaves the try block:
\* only KeyboardInterrupt is caught (main.py:731), the finally clause runs.
BlinkCommand(o, p) ==
    /\ main_cmds' = main_cmds + 1
    /\ mpc' = IF o = "raise" THEN "c_off" ELSE p
    /\ UNCHANGED << main_frame, audio_state, is_on, original_state, cleanup_ran >>

\* self.turn_on(); time.sleep(on_time)
BlinkOn ==
    /\ mpc = "blink_on"
    /\ \E o \in Outcomes : BlinkCommand(o, "blink_off")
    /\ UNCHANGED blink_left

\* self.turn_off(); time.sleep(off_time); the loop goes round or ends
BlinkOff ==
    /\ mpc = "blink_off"
    /\ blink_left' = blink_left - 1
    /\ \E o \in Outcomes :
           BlinkCommand(o, IF blink_left > 1 THEN "blink_on"
                           ELSE IF original_state THEN "blink_restore"
                           ELSE "m_sleep")

\* output_control.py:67-68: the output was on before, it is switched on again
BlinkRestore ==
    /\ mpc = "blink_restore"
    /\ \E o \in Outcomes : BlinkCommand(o, "m_sleep")
    /\ UNCHANGED blink_left

Blink == BlinkStart \/ BlinkOn \/ BlinkOff \/ BlinkRestore

\* Ctrl+C: KeyboardInterrupt reaches the main thread wherever it stands in
\* the try block, is caught at main.py:731, and the finally clause begins
Interrupt ==
    /\ mpc \in BlinkPcs \cup LoopPcs
    /\ mpc' = "c_off"
    /\ UNCHANGED << main_frame, audio_state, is_on, blink_left, original_state,
                    main_cmds, cleanup_ran >>

\* an exception of the idle path has left the loop: the finally clause begins
LoopExit ==
    /\ mpc = "m_dead"
    /\ mpc' = "c_off"
    /\ UNCHANGED << main_frame, audio_state, is_on, blink_left, original_state,
                    main_cmds, cleanup_ran >>

\* main.py:738, output.turn_off(): when it raises, control goes to the except
\* clause of line 764
CleanupOff ==
    /\ mpc = "c_off"
    /\ cleanup_ran' = cleanup_ran \cup {"turn_off"}
    /\ main_cmds' = main_cmds + 1
    /\ \E o \in Outcomes :
           /\ is_on' = IsOnAfterTurnOff(o)
           /\ mpc' = IF o = "raise" THEN "c_except" ELSE "c_cleanup"
    /\ UNCHANGED << main_frame, audio_state, blink_left, original_state >>

\* main.py:739, output.cleanup(): GPIO.cleanup(pin) either works or raises;
\* USBRelay.cleanup() catches what goes wrong (usb_relay_control.py:182-193)
CleanupOutput ==
    /\ mpc = "c_cleanup"
    /\ cleanup_ran' = cleanup_ran \cup {"cleanup"}
    /\ \E o \in Outcomes :
           mpc' = IF o = "raise" THEN "c_except" ELSE "c_stop"
    /\ UNCHANGED << main_frame, audio_state, is_on, blink_left, original_state,
                    main_cmds >>

\* main.py:740, audio.stop_audio(), which catches its own errors
\* (audio_output.py:396-424)
CleanupStop ==
    /\ mpc = "c_stop"
    /\ cleanup_ran' = cleanup_ran \cup {"stop_audio"}
    /\ music_busy' = FALSE
    /\ tone_playing' = "none"
    /\ mpc' = "c_handlers"
    /\ UNCHANGED << main_frame, is_on, blink_left, original_state, main_cmds >>

\* main.py:742-763: the keyboard handlers and GPIO.cleanup(), each in a try
\* block of its own; main.py:764-765: the except clause of the pass.  Then
\* the module ends and with it the process.
CleanupEnd ==
    /\ mpc \in {"c_handlers", "c_except"}
    /\ mpc' = "exited"
    /\ UNCHANGED << main_frame, audio_state, is_on, blink_left, original_state,
                    main_cmds, cleanup_ran >>

Cleanup == CleanupOff \/ CleanupOutput \/ CleanupStop \/ CleanupEnd

\* The main thread from the ready blink on, with one trigger source that is
\* armed before the blink begins (main.py:539), the default idle sound, and
\* an audio directory that is empty or holds one short clip
MainInit ==
    /\ ThreadsAtStart
    /\ audio_files \in { {}, {Scream} }
    /\ mpc = "m_start"
    /\ inactive_time = 0
    /\ idle_sound_path = None
    /\ LAST_IDLE_SOUND_TIME = 0
    /\ LAST_IDLE_SOUND = ""
    /\ idle_files = {}
    /\ default_sound = TRUE
    /\ MainInLoop
    /\ DeviceReady
    /\ SourcesAtStart
    /\ GuiAtStart

MainNext ==
    \/ IdleTick
    \/ Blink
    \/ Monitor
    \/ LoopExit
    \/ Cleanup
    \/ Trigger("button") \/ Session("button") \/ CallbackDone("button")

MainSpec == MainInit /\ [][MainNext]_vars

\* The shutdown while a trigger source is still running sessions: Ctrl+C
\* reaches the main thread in its loop and the cleanup pass of main.py:734-765
\* runs next to the thread that is inside button_pressed()
ExitNext ==
    \/ Interrupt
    \/ Cleanup
    \/ Trigger("button") \/ Session("button") \/ CallbackDone("button")

ExitSpec == Init /\ [][ExitNext]_vars

\* The end of the process while no trigger arrives: Ctrl+C, or an exception
\* of the idle path, takes the main thread out of its loop
ShutdownNext ==
    \/ IdleTick
    \/ Monitor
    \/ Interrupt
    \/ LoopExit
    \/ Cleanup

ShutdownSpec == IdleInit /\ [][ShutdownNext]_vars

\* ------------------------------------------------------------------------
\* The toggle functions on their own: one thread enters one of them with a
\* count of 0..MaxCount while a producer may put the completion signal in
\* the queue at any moment.
\* ------------------------------------------------------------------------
ToggleStart ==
    /\ pc \in { [t \in Threads |-> IF t = "button" THEN p ELSE "idle"] :
                    p \in {"ts_on", "tf_on"} }
    /\ SCARE_IN_PROGRESS = TRUE
    /\ LAST_ACTIVITY_TIME = 0
    /\ IDLE_SOUND_PLAYED = FALSE
    /\ now = 0
    /\ audio_files = {}
    /\ PYGAME_AVAILABLE \in BOOLEAN
    /\ music_busy \in BOOLEAN
    /\ tone_playing = "none"
    /\ output_type \in {"gpio", "usb_relay"}
    /\ is_on \in BOOLEAN
    /\ audio_path = [t \in Threads |-> None]
    /\ toggle_count \in
           { [t \in Threads |-> IF t = "button" THEN c ELSE DefaultToggleCount] :
                 c \in 0..MaxCount }
    /\ toggle_duration = [t \in Threads |-> DefaultToggleDuration]
    /\ audio_done_queue = [t \in Threads |-> 0]
    /\ audio_done = [t \in Threads |-> FALSE]
    /\ is_mp3 \in { [t \in Threads |-> t = "button" /\ b] : b \in BOOLEAN }
    /\ i = [t \in Threads |-> 0]
    /\ audio_thread = [t \in Threads |->
                           IF t = "button" /\ pc[t] = "ts_on" THEN "started" ELSE "none"]
    /\ exc = [t \in Threads |-> "none"]
    /\ result = [t \in Threads |-> "none"]
    /\ ran = [t \in Threads |-> t = "button"]
    /\ last_cmd = [t \in Threads |-> "none"]
    /\ n_on = [t \in Threads |-> 0]
    /\ n_off = [t \in Threads |-> 0]
    /\ n_put = [t \in Threads |-> 0]
    /\ touched = [t \in Threads |-> FALSE]
    /\ sig_after_off = [t \in Threads |-> 0]
    /\ MonitorAtStart /\ NoIdleClips /\ RestAtStart
    /\ PlayerAtStart

ToggleInit == ToggleStart /\ NoLateThread

ToggleNext ==
    \E t \in {"button"} :
        \/ SyncOn(t) \/ SyncPrecheck(t) \/ SyncLoop(t) \/ SyncOff(t) \/ SyncCheck1(t)
        \/ SyncOn2(t) \/ SyncCheck2(t) \/ SyncFinal(t) \/ SyncReturn(t)
        \/ FixedOn(t) \/ FixedLoop(t) \/ FixedOff(t) \/ FixedOn2(t)
        \/ FixedFinal(t) \/ FixedReturn(t)
        \/ AudioDoneSignal(t)

ToggleSpec == ToggleInit /\ [][ToggleNext]_vars

\* ------------------------------------------------------------------------
\* Two sessions in a row: the toggle function of the later one runs while
\* the audio thread of the earlier one is still alive.  That thread is the
\* closure play_audio_and_signal() of the earlier call (main.py:151-169) and
\* holds the queue.Queue() that call made at line 110; the later call made a
\* queue of its own at the same line.
\* ------------------------------------------------------------------------
\* an audio thread that puts its signal in one queue shared by all sessions
LateSignal_SharedQueue ==
    /\ late_thread = "started"
    /\ late_thread' = "finished"
    /\ audio_done_queue' = [audio_done_queue EXCEPT !["button"] = @ + 1]
    /\ UNCHANGED << pc, globals, now, hardware, main_thread, device, sources, gui,
                    late_queue, last_success, player, idle, audio_state, is_on,
                    locals, exc, result, ran, history, audio_thread, n_put,
                    sig_after_off >>

\* line 168 on the earlier session's thread: audio_done_queue.put(True) on
\* the queue of the earlier call
LateSignal ==
    /\ late_thread = "started"
    /\ late_thread' = "finished"
    /\ late_queue' = late_queue + 1
    /\ UNCHANGED << pc, globals, now, hardware, main_thread, device, sources, gui,
                    last_success, player, idle, audio_state, is_on,
                    locals, exc, result, ran, history, signal >>

PrivateInit ==
    /\ ToggleStart
    /\ late_thread = "started"
    /\ late_queue = 0

PrivateNext == ToggleNext \/ LateSignal

PrivateSpec == PrivateInit /\ [][PrivateNext]_vars

\* ------------------------------------------------------------------------
\* The toggle schedule on its own: one thread stands at main.py:112 with a
\* clip of any supported type and of a size of up to MaxSizeSteps fifths of
\* a second, on or one byte below a fifth, or with no clip.
\* ------------------------------------------------------------------------
ScheduleSizes ==
    { k * (BytesPerSecond \div 5) : k \in 0..MaxSizeSteps }
        \cup { k * (BytesPerSecond \div 5) - 1 : k \in 1..MaxSizeSteps }

ScheduleClips ==
    { [name |-> "clip", ext |-> e, size |-> z] :
          e \in {"wav", "mp3", "ogg"}, z \in ScheduleSizes } \cup {None}

ScheduleInit ==
    /\ pc = [t \in Threads |-> IF t = "button" THEN "scare_estimate" ELSE "idle"]
    /\ SCARE_IN_PROGRESS = TRUE
    /\ LAST_ACTIVITY_TIME = 0
    /\ IDLE_SOUND_PLAYED = FALSE
    /\ now = 0
    /\ audio_files = {}
    /\ PYGAME_AVAILABLE = TRUE
    /\ music_busy = FALSE
    /\ tone_playing = "none"
    /\ output_type = "gpio"
    /\ is_on = TRUE
    /\ audio_path \in { [t \in Threads |-> IF t = "button" THEN c ELSE None] :
                           c \in ScheduleClips }
    /\ toggle_count = [t \in Threads |-> DefaultToggleCount]
    /\ toggle_duration = [t \in Threads |-> DefaultToggleDuration]
    /\ audio_done_queue = [t \in Threads |-> 0]
    /\ audio_done = [t \in Threads |-> FALSE]
    /\ is_mp3 = [t \in Threads |-> FALSE]
    /\ i = [t \in Threads |-> 0]
    /\ audio_thread = [t \in Threads |-> "none"]
    /\ exc = [t \in Threads |-> "none"]
    /\ result = [t \in Threads |-> "none"]
    /\ ran = [t \in Threads |-> t = "button"]
    /\ last_cmd = [t \in Threads |-> IF t = "button" THEN "on" ELSE "none"]
    /\ n_on = [t \in Threads |-> 0]
    /\ n_off = [t \in Threads |-> 0]
    /\ n_put = [t \in Threads |-> 0]
    /\ touched = [t \in Threads |-> FALSE]
    /\ sig_after_off = [t \in Threads |-> 0]
    /\ MonitorAtStart /\ NoIdleClips /\ RestAtStart
    /\ NoLateThread /\ PlayerAtStart

ScheduleNext == ScareEstimate("button")

ScheduleSpec == ScheduleInit /\ [][ScheduleNext]_vars

\* ------------------------------------------------------------------------
\* Properties
\* ------------------------------------------------------------------------
\* thread t is executing the scare sequence of a call that holds the flag
InScare(t) ==
    pc[t] \in { "bp_select", "scare_on", "scare_estimate", "scare_branch",
                "scare_play_first", "scare_parallel", "ts_on", "ts_precheck",
                "ts_loop", "ts_off", "ts_check1", "ts_on2", "ts_check2",
                "ts_final", "ts_return", "tf_on", "tf_loop", "tf_off", "tf_on2",
                "tf_final", "tf_return", "scare_off", "bp_default", "bp_tones",
                "bp_finally", "bp_clear" }

\* the step with which the call of t that set the flag ends
SessionEnds(t) == ran[t] /\ pc[t] # "bp_end" /\ pc'[t] = "bp_end"

\* C1: at no time are two threads executing the scare sequence: of the
\* calls that meet an unset flag only one goes on into the sequence.
C1_MutualExclusion ==
    \A t1, t2 \in Threads : InScare(t1) /\ InScare(t2) => t1 = t2

\* C2: when a call that ran the scare sequence ends, by returning or by
\* raising, the actuator's observed state is_on is False.
C2_ActuatorOffAtEnd ==
    [][\A t \in Threads : SessionEnds(t) => is_on' = FALSE]_vars

\* C3: no failure of duration estimation (OSError of getsize) or of audio
\* playback (TypeError of play_audio_file) ends a button_pressed() call:
\* no call ends by raising one of them to the trigger source.
C3_NothingEscapes ==
    \A t \in Threads : result[t] \notin {"OSError", "TypeError"}

\* C4: when a call that set SCARE_IN_PROGRESS ends, on whatever path,
\* SCARE_IN_PROGRESS is False.
C4_FlagClearedAtEnd ==
    [][\A t \in Threads : SessionEnds(t) => SCARE_IN_PROGRESS' = FALSE]_vars

\* C5: a call that meets the flag set ends without running anything, and the
\* RUNNING state is only entered from IDLE: the flag is unset at the moment
\* a call sets it and goes on into the scare sequence.
C5_RunningOnlyFromIdle ==
    [][\A t \in Threads :
           /\ (pc[t] = "bp_check" /\ pc'[t] = "bp_end") => ~InScare(t)'
           /\ (pc[t] = "bp_set" /\ pc'[t] = "bp_select") => SCARE_IN_PROGRESS = FALSE
      ]_vars

\* C6, as stated: a call that was turned away because a session is active
\* has changed neither LAST_ACTIVITY_TIME nor IDLE_SOUND_PLAYED.
C6_DroppedCallChangesNothing ==
    \A t \in Threads : result[t] = "dropped" => ~touched[t]

\* C6, amended: the two steps of a call that is turned away leave the
\* actuator, the audio playback and SCARE_IN_PROGRESS as they are; the first
\* sets LAST_ACTIVITY_TIME to the current time and clears IDLE_SOUND_PLAYED,
\* the second changes nothing and ends the call.
C6_DroppedCallFrame ==
    [][\A t \in Threads :
           /\ (pc[t] = "bp_activity" /\ pc'[t] # pc[t]) =>
                  /\ UNCHANGED << is_on, music_busy, tone_playing, SCARE_IN_PROGRESS >>
                  /\ LAST_ACTIVITY_TIME' = now
                  /\ IDLE_SOUND_PLAYED' = FALSE
           /\ (pc[t] = "bp_check" /\ SCARE_IN_PROGRESS /\ pc'[t] # pc[t]) =>
                  /\ pc'[t] = "bp_end"
                  /\ result'[t] = "dropped"
                  /\ UNCHANGED << is_on, music_busy, tone_playing, globals >>
      ]_vars

\* a call was turned away after it had moved LAST_ACTIVITY_TIME
C6_Witness ==
    \E t \in Threads : result[t] = "dropped" /\ touched[t] /\ LAST_ACTIVITY_TIME = now

\* C7: when the completion signal is put in the queue between the k-th
\* turn_off of the loop and the poll that follows it, the loop gives no
\* (k+1)-th turn_on, and the only turn_off after the k-th is the final one.
C7_StopsOnSignalAfterOff ==
    \A t \in Threads :
        sig_after_off[t] > 0 =>
            /\ n_on[t] <= sig_after_off[t]
            /\ n_off[t] <= sig_after_off[t] + 1

\* count = 10, signal after the 3rd turn_off: the function has returned
\* after 3 turn_on and 4 turn_off commands
C7_Witness ==
    /\ toggle_count["button"] = 10
    /\ sig_after_off["button"] = 3
    /\ pc["button"] = "scare_off"
    /\ n_on["button"] = 3
    /\ n_off["button"] = 4

\* C8: when the audio thread of a session has ended, normally or with an
\* error, it has put the completion signal in the queue exactly once.
C8_SignalSetOnce ==
    \A t \in Threads : audio_thread[t] \in {"finished", "raised"} => n_put[t] = 1

\* C9: a toggle function returns right after a turn_off command, and its
\* loop has run at most count iterations: at most count + 1 commands of
\* either kind were given.
C9_ReturnAfterTurnOff ==
    \A t \in Threads :
        /\ pc[t] \in {"ts_return", "tf_return"} => last_cmd[t] = "off"
        /\ pc[t] \in { "ts_precheck", "ts_loop", "ts_off", "ts_check1", "ts_on2",
                       "ts_check2", "ts_final", "ts_return", "tf_loop", "tf_off",
                       "tf_on2", "tf_final", "tf_return" } =>
               /\ i[t] <= toggle_count[t]
               /\ n_on[t] <= toggle_count[t] + 1
               /\ n_off[t] <= toggle_count[t] + 1

\* the synchronized loop was ended early by the signal and is about to return
C9_Witness ==
    /\ pc["button"] = "ts_return"
    /\ audio_done["button"]
    /\ n_put["button"] = 1
    /\ 0 < i["button"]
    /\ i["button"] < toggle_count["button"]

\* The positions of a thread inside the toggle loop of
\* _toggle_output_with_audio_sync
SyncLoopPcs ==
    {"ts_precheck", "ts_loop", "ts_off", "ts_check1", "ts_on2", "ts_check2"}

\* C10: every accepted call reaches its end; the toggle loop never goes beyond
\* the scheduled count, also when the completion signal never comes; and a
\* thread leaves the loop only for the final turn_off, with the audio seen
\* done or the count exhausted, unless an actuator command itself raises.
C10_SessionTerminates ==
    /\ \A t \in Threads : ran[t] ~> (pc[t] = "bp_end")
    /\ [](\A t \in Threads : i[t] <= toggle_count[t])
    /\ [][\A t \in Threads :
            (pc[t] \in SyncLoopPcs /\ pc'[t] \notin SyncLoopPcs)
                => \/ /\ pc'[t] = "ts_final"
                      /\ audio_done'[t] \/ i'[t] = toggle_count[t]
                   \/ exc'[t] = "RuntimeError"]_vars

\* a session that toggled its full count without ever seeing a signal
C10_Witness ==
    \E t \in Threads :
        /\ pc[t] = "ts_final"
        /\ i[t] = toggle_count[t]
        /\ ~audio_done[t]
        /\ n_put[t] = 0
        /\ audio_thread[t] = "raised"

\* The clip selected by thread t could not be played: its audio thread died,
\* or play_audio_file raised in the thread itself.
PlaybackFailed(t) ==
    /\ audio_path[t] # None
    /\ audio_thread[t] = "raised" \/ exc'[t] = "TypeError"

\* C11: when the selected clip cannot be played, the session plays the
\* built-in tone sequence instead: a thread whose playback failed enters the
\* finally clause only after the alarm and the melody.
C11_FallbackOnPlaybackFailure ==
    [][\A t \in Threads :
          (PlaybackFailed(t) /\ pc[t] # "bp_finally" /\ pc'[t] = "bp_finally")
              => pc[t] = "bp_tones"]_vars

\* C12: with no .wav/.mp3/.ogg file in the audio directory a session plays
\* the alarm and the melody; once they have sounded the finally clause turns
\* the actuator off and goes on to clear SCARE_IN_PROGRESS; and a call
\* that tests the flag while another thread is in the tone sequence is
\* dropped.
C12_EmptyDirectoryFallback ==
    [][SelectableClips(audio_files) = {None} =>
          \A t \in Threads :
              /\ (pc[t] = "bp_default" /\ pc'[t] # "bp_default")
                     => pc'[t] = "bp_tones" /\ tone_playing' = t
              /\ (pc[t] = "bp_finally" /\ exc[t] = "none" /\ pc'[t] # "bp_finally")
                     => is_on' = FALSE /\ pc'[t] = "bp_clear"
              /\ (pc[t] = "bp_clear" /\ pc'[t] # "bp_clear")
                     => SCARE_IN_PROGRESS' = FALSE
              /\ \A u \in Threads \ {t} :
                     (pc[t] = "bp_tones" /\ pc[u] = "bp_check" /\ pc'[u] # "bp_check")
                         => pc'[u] = "bp_end"]_vars

\* The schedule the claim states for thread t's clip, with mp3count toggles
\* for an MP3 clip: a WAV of under one second gets 5 toggles of 0.3 s; a
\* longer WAV gets the whole part of 2.5 toggles per second, kept within
\* 5..20, at 0.2 s; any other clip and no clip get the default of 0.2 s.
ScheduleAsClaimed(t, mp3count) ==
    LET clip == audio_path[t]
        n == CHOOSE m \in 0..(3 * MaxSizeSteps) :
                 /\ 2 * BytesPerSecond * m <= 5 * clip.size
                 /\ 5 * clip.size < 2 * BytesPerSecond * (m + 1)
    IN  IF clip # None /\ clip.ext = "wav"
        THEN IF clip.size < BytesPerSecond
             THEN toggle_count[t] = 5 /\ toggle_duration[t] = 300
             ELSE /\ toggle_count[t] = Max(5, Min(20, n))
                  /\ toggle_duration[t] = 200
        ELSE /\ toggle_count[t] = IF clip # None /\ clip.ext = "mp3"
                                  THEN mp3count ELSE 10
             /\ toggle_duration[t] = 200

\* Between WAV clips the count does not go down as the clip gets longer, and
\* every count is within 5..20.
ScheduleGrows(t) ==
    /\ toggle_count[t] \in 5..20
    /\ \A c \in ScheduleClips :
           (/\ c # None /\ audio_path[t] # None
            /\ c.ext = "wav" /\ audio_path[t].ext = "wav"
            /\ c.size >= audio_path[t].size /\ audio_path[t].size >= BytesPerSecond)
               => ToggleSchedule(c)[1] >= toggle_count[t]

\* C13 as stated: once the schedule is computed it is the claimed one, a clip
\* without a duration estimate (an MP3 too) getting the default 10 toggles.
C13_ScheduleDefaultForMp3 ==
    \A t \in Threads :
        pc[t] = "scare_branch" => ScheduleAsClaimed(t, 10) /\ ScheduleGrows(t)

\* C13 amended: once the schedule is computed it is the claimed one, except
\* that an MP3 clip gets 15 toggles of 0.2 s.
C13_ToggleSchedule ==
    \A t \in Threads :
        pc[t] = "scare_branch" => ScheduleAsClaimed(t, 15) /\ ScheduleGrows(t)

\* the schedule of a 4.8 s WAV: 12 toggles, between the clamps
C13_Witness ==
    /\ pc["button"] = "scare_branch"
    /\ audio_path["button"].ext = "wav"
    /\ audio_path["button"].size = 24 * (BytesPerSecond \div 5)
    /\ toggle_count["button"] = 12
    /\ toggle_duration["button"] = 200

\* C14: a session with a selected clip never plays the clip first and
\* toggles afterwards, and while it is in the toggle loop its audio thread
\* is alive (playing) or has finished by putting the completion signal.
C14_AudioConcurrentWithToggling ==
    \A t \in Threads :
        audio_path[t] # None =>
            /\ pc[t] \notin {"scare_play_first", "tf_on", "tf_loop", "tf_off",
                             "tf_on2", "tf_final", "tf_return"}
            /\ pc[t] \in SyncLoopPcs => audio_thread[t] \in {"started", "finished"}

\* thread t leaves the toggle loop for the final turn_off before its count
\* is reached
StopsEarly(t) ==
    /\ pc[t] \in SyncLoopPcs
    /\ pc'[t] = "ts_final"
    /\ i'[t] < toggle_count[t]

\* C15 as stated: the loop stops before its scheduled count only when the
\* completion signal has been put in the queue.
C15_OnlySignalStopsLoop ==
    [][\A t \in Threads : StopsEarly(t) => n_put[t] > 0]_vars

\* C15 amended: the loop stops before its scheduled count only when the
\* completion signal has been put, or, for an MP3 clip with the mixer
\* initialised, when the mixer reports that no music is playing.
C15_SignalOrIdleMixerStopsLoop ==
    [][\A t \in Threads :
          StopsEarly(t) =>
              \/ n_put[t] > 0
              \/ is_mp3[t] /\ PYGAME_AVAILABLE /\ ~music_busy]_vars

\* an MP3 session whose loop ended early with no signal ever put
C15_Witness ==
    /\ pc["button"] = "ts_final"
    /\ i["button"] < toggle_count["button"]
    /\ audio_done["button"]
    /\ n_put["button"] = 0
    /\ is_mp3["button"]

\* the step in which an idle clip starts playing
IdleStarts == mpc = "i_play" /\ mpc' = "i_playing"

\* C16: every button_pressed() call sets LAST_ACTIVITY_TIME to the current
\* time and clears IDLE_SOUND_PLAYED, and an idle sound starts only when at
\* least STANDBY_TIMEOUT seconds have passed since the last trigger, however
\* the trigger and the monitor's tick interleave.
C16_TriggerSuppressesIdle ==
    [][/\ \A t \in Threads :
              (pc[t] = "bp_activity" /\ pc'[t] # "bp_activity")
                  => LAST_ACTIVITY_TIME' = now /\ IDLE_SOUND_PLAYED' = FALSE
       /\ IdleStarts => now - LAST_ACTIVITY_TIME >= STANDBY_TIMEOUT]_vars

\* C17: with no trigger, the monitor goes on to play exactly when the
\* inactivity it read is at least STANDBY_TIMEOUT and the played flag is not
\* set; playing sets the flag and LAST_IDLE_SOUND_TIME; the flag is reset
\* exactly when IDLE_REPEAT_INTERVAL has passed since LAST_IDLE_SOUND_TIME;
\* so the first sound starts no earlier than STANDBY_TIMEOUT and each later
\* one no earlier than IDLE_REPEAT_INTERVAL after the one before.
C17_IdleSchedule ==
    [][/\ (mpc = "m_check" /\ mpc' # "m_check")
              => (mpc' = "i_list" <=>
                      inactive_time >= STANDBY_TIMEOUT /\ ~IDLE_SOUND_PLAYED)
       /\ (mpc = "i_playing" /\ mpc' # "i_playing")
              => IDLE_SOUND_PLAYED' /\ LAST_IDLE_SOUND_TIME' = now
       /\ (mpc = "m_sleep" /\ mpc' # "m_sleep" /\ IDLE_SOUND_PLAYED)
              => (~IDLE_SOUND_PLAYED' <=>
                      now - LAST_IDLE_SOUND_TIME >= IDLE_REPEAT_INTERVAL)
       /\ IdleStarts
              => /\ ~IDLE_SOUND_PLAYED
                 /\ now - LAST_ACTIVITY_TIME >= STANDBY_TIMEOUT
                 /\ LAST_IDLE_SOUND # ""
                        => now - LAST_IDLE_SOUND_TIME >= IDLE_REPEAT_INTERVAL]_vars

\* the second idle sound: the first was played at STANDBY_TIMEOUT, this one
\* starts IDLE_REPEAT_INTERVAL later
C17_Witness ==
    /\ mpc = "i_playing"
    /\ LAST_IDLE_SOUND # ""
    /\ LAST_IDLE_SOUND_TIME = STANDBY_TIMEOUT
    /\ now = STANDBY_TIMEOUT + IDLE_REPEAT_INTERVAL
    /\ ~IDLE_SOUND_PLAYED

\* C18: the monitor decides to play only with the inactivity it read at
\* least STANDBY_TIMEOUT, the played flag unset and no session active; and
\* at the step in which the idle clip starts no session is running and no
\* session's sound is stopped by it.
C18_IdleNeverDuringSession ==
    [][/\ (mpc = "m_check" /\ mpc' = "i_list")
              => /\ inactive_time >= STANDBY_TIMEOUT
                 /\ ~IDLE_SOUND_PLAYED
                 /\ ~SCARE_IN_PROGRESS
       /\ IdleStarts
              => /\ ~SCARE_IN_PROGRESS
                 /\ \A t \in Threads : ~InScare(t)
                 /\ tone_playing = "none"]_vars

\* C19: the statements that end a session (main.py:353-360) set
\* LAST_ACTIVITY_TIME to the end time and clear IDLE_SOUND_PLAYED, and with
\* no call in progress an idle sound starts only STANDBY_TIMEOUT or more
\* after LAST_ACTIVITY_TIME, that is, after the end of the last session.
C19_IdleCountedFromSessionEnd ==
    [][/\ \A t \in Threads :
              (pc[t] = "bp_reset" /\ pc'[t] # "bp_reset")
                  => LAST_ACTIVITY_TIME' = now /\ ~IDLE_SOUND_PLAYED'
       /\ (/\ IdleStarts
           /\ ~SCARE_IN_PROGRESS
           /\ \A t \in Threads : pc[t] \in {"idle", "bp_end"})
              => now - LAST_ACTIVITY_TIME >= STANDBY_TIMEOUT]_vars

\* C20: no error of an idle tick ends the main loop.
C20_IdleErrorsCaught == mpc # "m_dead"

\* ------------------------------------------------------------------------
\* C24: when the duration of the selected clip cannot be estimated (its size
\* cannot be read), the failure is caught and the session goes on with a
\* toggle count and duration: the estimate is always followed by the choice
\* between playing first and playing in parallel, with no exception pending.
\* ------------------------------------------------------------------------
C24_EstimateFailureCaught ==
    [][\A t \in Threads :
           (pc[t] = "scare_estimate" /\ pc'[t] # "scare_estimate")
               => pc'[t] = "scare_branch" /\ exc'[t] = "none"]_vars

\* ------------------------------------------------------------------------
\* C26: the audio thread of a session never commands the actuator, and of
\* the state the toggle loop reads (the queue, the mixer, its own locals) it
\* writes nothing but the completion signal in the queue.
\* ------------------------------------------------------------------------
\* a step of the audio thread of t's session: the thread runs to its end
AudioThreadStep(t) ==
    audio_thread[t] = "started" /\ audio_thread'[t] \in {"raised", "finished"}

C26_AudioThreadFrame ==
    [][\A t \in Threads :
           AudioThreadStep(t)
               => UNCHANGED << is_on, last_cmd, n_on, n_off, music_busy,
                               tone_playing, locals, pc, exc, globals >>]_vars

\* the audio thread has ended while its session is in the toggle loop with
\* the actuator on
C26_Witness ==
    \E t \in Threads :
        /\ audio_thread[t] = "raised"
        /\ pc[t] \in SyncLoopPcs
        /\ is_on

\* ------------------------------------------------------------------------
\* C21: the idle path never commands the actuator: no step of
\* check_inactivity() or play_idle_sound() changes the actuator state or
\* gives it a command, and while a scare is in progress nobody but the thread
\* running it gives the actuator a command.
\* ------------------------------------------------------------------------
\* the main thread gives the actuator a command in this step
MainCommands == main_cmds' # main_cmds

\* a step of check_inactivity() or play_idle_sound()
IdlePathStep == mpc \in LoopPcs /\ mpc' # mpc /\ mpc' # "c_off"

C21_IdlePathLeavesActuator ==
    [][/\ IdlePathStep => is_on' = is_on /\ ~MainCommands
       /\ MainCommands => ~SCARE_IN_PROGRESS]_vars

\* ------------------------------------------------------------------------
\* C23: when the process has ended, every step of the cleanup pass was
\* called: the actuator was commanded off, the controller cleaned up and the
\* audio stopped, whatever any of the steps did.
\* ------------------------------------------------------------------------
C23_CleanupRunsEveryStep ==
    mpc = "exited" => cleanup_ran = CleanupSteps

\* ------------------------------------------------------------------------
\* C22: the clip play_idle_sound() chooses: with more than one idle clip
\* never the one played last, with exactly one clip that clip, with none the
\* default clip; and it gives up without a choice only when the played flag
\* is set or there is neither an idle clip nor the default clip.
\* ------------------------------------------------------------------------
\* the audio files of the idle directory
IdleClips == {f \in idle_files : ValidAudio(f)}

C22_IdleChoice ==
    [][/\ (mpc = "i_list" /\ mpc' = "i_play")
              => /\ Cardinality(IdleClips) > 1
                        => /\ idle_sound_path' \in IdleClips
                           /\ idle_sound_path'.name # LAST_IDLE_SOUND
                 /\ Cardinality(IdleClips) = 1
                        => idle_sound_path' \in IdleClips
                 /\ IdleClips = {}
                        => idle_sound_path' = Snarl
       /\ (mpc = "i_list" /\ mpc' = "m_sleep")
              => IDLE_SOUND_PLAYED \/ (IdleClips = {} /\ ~default_sound)]_vars

\* the second choice among three clips: one was played before, another one
\* is chosen now
C22_Witness ==
    /\ mpc = "i_play"
    /\ Cardinality(IdleClips) = 3
    /\ LAST_IDLE_SOUND \in {f.name : f \in IdleClips}
    /\ idle_sound_path \in IdleClips
    /\ idle_sound_path.name # LAST_IDLE_SOUND

\* ------------------------------------------------------------------------
\* C25: with no usable controller (no GPIO controller and the relay not
\* connected) turn_on() and turn_off() do nothing and raise nothing: no step
\* changes is_on or raises the actuator's exception, and every call of
\* button_pressed() that ran a session returns.
\* ------------------------------------------------------------------------
\* the constructed actuator has no controller that can switch anything
NoController ==
    /\ mpc # "m_init"
    /\ ~(output_type = "gpio" /\ gpio_controller)
    /\ ~(output_type = "usb_relay" /\ usb_controller /\ connected)

C25_NoControllerNoOp ==
    [][NoController =>
           /\ is_on' = is_on
           /\ \A t \in Threads :
                  /\ exc'[t] # "RuntimeError"
                  /\ (pc[t] # "bp_end" /\ pc'[t] = "bp_end")
                         => result'[t] \in {"returned", "dropped"}]_vars

\* ------------------------------------------------------------------------
\* C30: when the constructor is on the USB relay path, the relay is not
\* connected and GPIO was not tried, it falls back to GPIO: with a working
\* GPIO the output type is "gpio" afterwards and there is a GPIO controller
\* for turn_on() and turn_off() to drive.
\* ------------------------------------------------------------------------
C30_FallsBackToGpio ==
    [][(/\ mpc = "m_init" /\ mpc' # "m_init"
        /\ usb_controller' /\ ~connected' /\ ~gpio_tried' /\ gpio_ok)
           => output_type' = "gpio" /\ gpio_controller']_vars

\* ------------------------------------------------------------------------
\* C27: a trigger source calls its callback for a press only when more than
\* debounce_time has passed since the last press for which that same source
\* called it, and it does call it then: what the other source accepted, and
\* when, plays no part.
\* ------------------------------------------------------------------------
\* the source calls its callback in this step
Accepts(t) == pc[t] = "idle" /\ pc'[t] = "bp_activity"

\* the source sees a press in this step and lets it pass
Rejects(t) == press_log[t] # "rejected" /\ press_log'[t] = "rejected"

C27_DebouncePerSource ==
    [][\A t \in Threads :
           /\ Accepts(t) => now - accepted_at[t] > debounce_time
           /\ Rejects(t) => now - accepted_at[t] <= debounce_time]_vars

\* both sources have called the callback, less than debounce_time apart
C27_Witness ==
    /\ accepted_at["button"] >= 0
    /\ accepted_at["keyboard"] > accepted_at["button"]
    /\ accepted_at["keyboard"] - accepted_at["button"] < debounce_time
    /\ press_log["button"] = "rejected"
    /\ press_log["keyboard"] = "accepted"

\* ------------------------------------------------------------------------
\* C28: the GUI button is single-flight. A click is taken up (a callback
\* thread started, or the handler's own cooldown begun) only while
\* button_active is True, and taking it up sets button_active to False; at
\* most one thread started by the GUI is inside _trigger_callback() before
\* its reset is queued, and button_active is False all that time; and
\* button_active turns True only when the callback of the last accepted click
\* has returned and cooldown_time has passed since.
\* ------------------------------------------------------------------------
\* the click handled in this step is taken up
TakenUp ==
    \/ \E t \in Threads : gpc[t] = "none" /\ gpc'[t] = "callback"
    \/ tkpc = "loop" /\ tkpc' = "sleeping"

\* the threads started by the GUI that have not yet queued the reset
Flying == { t \in Threads : gpc[t] \in InFlight }

C28_SingleFlight ==
    /\ [](Cardinality(Flying) <= 1)
    /\ [](Flying # {} \/ tkpc = "sleeping" => ~button_active)
    /\ [][/\ TakenUp => button_active /\ ~button_active'
          /\ ~button_active /\ button_active' =>
                 /\ Flying = {}
                 /\ returned_at >= 0
                 /\ now >= returned_at + cooldown_time]_vars

\* a second click has been taken up, after the first one's callback
\* returned and the button was reset
C28_Witness ==
    /\ clicks = 2
    /\ ~button_active
    /\ \E t \in Threads : gpc[t] = "callback" /\ pc[t] = "bp_end"

\* ------------------------------------------------------------------------
\* C29: whenever the GUI button is disabled (a click was accepted), it is
\* enabled again later: after the callback returned, after it raised, and
\* when there is no callback.
\* ------------------------------------------------------------------------
C29_ButtonReenabled == ~button_active ~> button_active

\* the button is enabled again after a click whose callback raised
C29_Witness ==
    /\ button_active
    /\ clicks > 0
    /\ last_outcome = "raised"
    /\ reset_pending = 0

\* ------------------------------------------------------------------------
\* C33: in every state in which SCARE_IN_PROGRESS is False the actuator is
\* off.
\* ------------------------------------------------------------------------
C33_OffWhileNoScare == ~SCARE_IN_PROGRESS => ~is_on

\* ------------------------------------------------------------------------
\* C34: when a session clears SCARE_IN_PROGRESS, the audio thread it started
\* has finished and the mixer plays nothing.
\* ------------------------------------------------------------------------
C34_QuietAtSessionEnd ==
    [][\A t \in Threads :
           pc[t] = "bp_clear" /\ pc'[t] = "bp_reset" =>
               audio_thread[t] # "started" /\ ~music_busy]_vars

\* ------------------------------------------------------------------------
\* C35: the completion signal is private to its session. The queue a session
\* polls holds only what that session's own audio thread has put, so the
\* signal of an earlier session's thread never sets audio_done in a later
\* session: audio_done is set only after the session's own thread signalled
\* or, for an MP3 clip, when the mixer is seen idle.
\* ------------------------------------------------------------------------
C35_SignalPrivate ==
    /\ [](\A t \in Threads : audio_done_queue[t] <= n_put[t])
    /\ [][\A t \in Threads :
             ~audio_done[t] /\ audio_done'[t] =>
                 n_put[t] > 0 \/ (is_mp3[t] /\ ~music_busy)]_vars

\* the earlier session's thread has signalled and the later session has
\* gone through its whole count without seeing a signal
C35_Witness ==
    /\ late_thread = "finished"
    /\ late_queue = 1
    /\ pc["button"] = "ts_return"
    /\ toggle_count["button"] = MaxCount
    /\ n_off["button"] = MaxCount + 1
    /\ ~audio_done["button"]

\* ------------------------------------------------------------------------
\* C36: CombinedOutputControl.is_on is True exactly when the last command
\* that succeeded was turn_on.
\* ------------------------------------------------------------------------
C36_IsOnIsLastSuccess == mpc # "m_init" => (is_on <=> last_success = "on")

\* ------------------------------------------------------------------------
\* C37: once the cleanup pass has commanded the actuator off and it is off,
\* nothing switches it on again before the process exits.
\* ------------------------------------------------------------------------
C37_StaysOffAfterCleanup ==
    [][("turn_off" \in cleanup_ran /\ mpc # "exited" /\ ~is_on) => ~is_on']_vars

\* ------------------------------------------------------------------------
\* C38: when a session has ended and cleared the flag, no call is under way,
\* an idle clip is available and the monitor's tick finds at least
\* STANDBY_TIMEOUT seconds gone since the session's end with no idle sound
\* played since that point, that tick goes on to play an idle sound.
\* ------------------------------------------------------------------------
C38_IdleAfterSession ==
    [][(/\ mpc = "m_check" /\ mpc' # "m_check"
        /\ \A t \in Threads : pc[t] = "idle"
        /\ ~SCARE_IN_PROGRESS
        /\ LAST_ACTIVITY_TIME > 0
        /\ inactive_time >= STANDBY_TIMEOUT
        /\ now - LAST_ACTIVITY_TIME >= STANDBY_TIMEOUT
        /\ LAST_IDLE_SOUND_TIME < LAST_ACTIVITY_TIME + STANDBY_TIMEOUT
        /\ IdleChoices # {})
           => mpc' = "i_list"]_vars

\* ------------------------------------------------------------------------
\* C32: in the main_all_keyboards variant the actuator is off whenever a call
\* of button_pressed() ends.
\* ------------------------------------------------------------------------
C32_OffAtCallEnd ==
    [][\A t \in Threads : pc[t] # "ak_end" /\ pc'[t] = "ak_end" => ~is_on']_vars

\* ------------------------------------------------------------------------
\* C31: every player process that has not exited is the one tracked in
\* current_process, or has just been started by a play_audio_file() that is
\* about to track it, so that at most one plays at a time; and when
\* stop_audio() returns, current_process is None or a process that has
\* exited, and stays so while no play_audio_file() tracks a new one.
\* ------------------------------------------------------------------------
\* the players in the hands of a call that has started but not yet stored them
Starting == { process[t] : t \in { u \in Threads : apc[u].at = "store" } }

C31_OnePlayerTracked ==
    /\ running \subseteq ({current_process} \cup Starting)
    /\ Cardinality(running) <= 1
====
